---- MODULE Spec2Model ----
(***************************************************************************)
(* Text2Trait: knowledge-graph loading, trait/gene resolution, one-hop     *)
(* expansion and the NCBI metadata client, modelled from the Python        *)
(* sources of the two front-end applications.                              *)
(*                                                                         *)
(* Python values: a dict key that is not present is Missing, Python's None *)
(* is None; every other value is a string or a number.                     *)
(***************************************************************************)
EXTENDS Integers, Sequences, FiniteSets, TLC

VARIABLES
    nodes_in,   \* the nodes JSON file: a sequence of node records
    edges_in,   \* the edges JSON file: a sequence of edge records
    G,          \* the networkx.DiGraph built by load_graph at import time
    out,        \* the arguments and the return value of the last call
    cache,      \* search_NCBI._cache: the in-memory cache dict
    disk,       \* the content of ncbi_cache.json
    procs,      \* the gunicorn worker processes that share ncbi_cache.json
    page,       \* the stores, timer and loading modal of an open results page
    files       \* the JSON Lines files of the data-processing pipeline

vars == <<nodes_in, edges_in, G, out, cache, disk, procs, page, files>>

\* The results page as laid out: graph-loaded and timer-done stores False,
\* loading-timer with n_intervals 0, loading-modal open; update_modal has no
\* prevent_initial_call, so its first call is due.
Layout ==
    [graph_loaded |-> FALSE, timer_done |-> FALSE, n_intervals |-> 0,
     is_open |-> TRUE, modal_due |-> TRUE]

None == "<None>"
Missing == "<missing>"
\* None where the code otherwise holds a dict or a tuple.
NoneDict == [is_none |-> TRUE]
\* Python's True where the key may also be absent.
PyTrue == "True"

Range(s) == {s[i] : i \in 1..Len(s)}

\* All orders in which the members of the finite set S can be iterated.
Perms(S) ==
    {s \in [1..Cardinality(S) -> S] : \A i, j \in 1..Cardinality(S) : s[i] = s[j] => i = j}

\* dict.get(key, default) on a record whose absent keys hold Missing.
Get(d, key, default) == IF d[key] = Missing THEN default ELSE d[key]

\* dict.setdefault(key, default)
SetDefault(d, key, default) ==
    IF d[key] = Missing THEN [d EXCEPT ![key] = default] ELSE d

(***************************************************************************)
(* The bounded input universe.                                             *)
(***************************************************************************)
MaxEdges == 2

Ids == {"n001", "n002", "n003"}
IdOrder == <<"n001", "n002", "n003">>

\* The node records a nodes file may hold for each id (at most one record per
\* id, in the order of IdOrder).  A text may collide with another node's id.
NodeOptions(id) ==
    CASE id = "n001" -> { [id |-> id, label |-> "Trait", text |-> "seed"],
                          [id |-> id, label |-> "Trait", text |-> Missing] }
      [] id = "n002" -> { [id |-> id, label |-> "Trait / Phenotype", text |-> "n001"],
                          [id |-> id, label |-> "Gene", text |-> "seem"],
                          [id |-> id, label |-> "Gene", text |-> "n003"],
                          [id |-> id, label |-> "Protein", text |-> "seed"] }
      [] id = "n003" -> { [id |-> id, label |-> "Gene", text |-> "seed"],
                          [id |-> id, label |-> Missing, text |-> Missing] }

RECURSIVE NodeFilesFrom(_)
NodeFilesFrom(i) ==
    IF i > Len(IdOrder) THEN {<<>>}
    ELSE LET rest == NodeFilesFrom(i + 1)
         IN  rest \cup {<<r>> \o f : r \in NodeOptions(IdOrder[i]), f \in rest}

NodeFiles == NodeFilesFrom(1)

\* The edge records an edges file may hold, in any order and with repeats.
EdgeRecs ==
    { [source |-> "n002", target |-> "n001", type |-> "REGULATES"],
      [source |-> "n002", target |-> "n001", type |-> "BINDS"],
      [source |-> "n001", target |-> "n002", type |-> "REGULATES"],
      [source |-> "n003", target |-> "n001", type |-> "REGULATES"],
      [source |-> "n002", target |-> "n003", type |-> "REGULATES"],
      [source |-> "n001", target |-> "n001", type |-> "REGULATES"] }

EdgeFiles == UNION {[1..n -> EdgeRecs] : n \in 0..MaxEdges}

(***************************************************************************)
(* networkx.DiGraph: nodes and adjacency keep insertion order; one         *)
(* attribute dict per node and per ordered (source, target) pair.          *)
(***************************************************************************)
NoAttr == [label |-> Missing, text |-> Missing]

EmptyGraph == [nodes |-> <<>>, attr |-> <<>>, edges |-> <<>>, eattr |-> <<>>]

HasNode(g, n) == n \in Range(g.nodes)
HasEdge(g, s, t) == <<s, t>> \in Range(g.edges)

\* dict.update: the keys present in new replace those of old.
Update(old, new) ==
    [k \in DOMAIN old |-> IF new[k] # Missing THEN new[k] ELSE old[k]]

\* G.add_node(node_id, **attr)
add_node(g, n, attr) ==
    IF HasNode(g, n)
    THEN [g EXCEPT !.attr = [m \in DOMAIN g.attr |->
                                IF m = n THEN Update(g.attr[m], attr) ELSE g.attr[m]]]
    ELSE [g EXCEPT !.nodes = Append(g.nodes, n),
                   !.attr = [m \in DOMAIN g.attr \cup {n} |->
                                IF m = n THEN attr ELSE g.attr[m]]]

\* G.add_edge(source, target, **edge_attr): missing endpoints are created
\* without attributes; an existing (source, target) pair has its attribute
\* dict updated in place.
add_edge(g, s, t, eattr) ==
    LET g1 == IF HasNode(g, s) THEN g ELSE add_node(g, s, NoAttr)
        g2 == IF HasNode(g1, t) THEN g1 ELSE add_node(g1, t, NoAttr)
        e == <<s, t>>
    IN  IF HasEdge(g2, s, t)
        THEN [g2 EXCEPT !.eattr = [p \in DOMAIN g2.eattr |->
                                      IF p = e THEN Update(g2.eattr[p], eattr)
                                      ELSE g2.eattr[p]]]
        ELSE [g2 EXCEPT !.edges = Append(g2.edges, e),
                        !.eattr = [p \in DOMAIN g2.eattr \cup {e} |->
                                      IF p = e THEN eattr ELSE g2.eattr[p]]]

RECURSIVE AddNodes(_, _)
AddNodes(g, recs) ==
    IF recs = <<>> THEN g
    ELSE LET node == Head(recs)
             attr == SetDefault(SetDefault([label |-> node.label, text |-> node.text],
                                           "label", None), "text", None)
         IN  AddNodes(add_node(g, node.id, attr), Tail(recs))

RECURSIVE AddEdges(_, _)
AddEdges(g, recs) ==
    IF recs = <<>> THEN g
    ELSE LET edge == Head(recs)
             edge_attr == SetDefault([type |-> edge.type], "type", None)
         IN  AddEdges(add_edge(g, edge.source, edge.target, edge_attr), Tail(recs))

load_graph(nodes, edges) == AddEdges(AddNodes(EmptyGraph, nodes), edges)

successors(g, n) == SelectSeq(g.edges, LAMBDA e : e[1] = n)
predecessors(g, n) == SelectSeq(g.edges, LAMBDA e : e[2] = n)
SuccSet(g, n) == {e[2] : e \in Range(successors(g, n))}
PredSet(g, n) == {e[1] : e \in Range(predecessors(g, n))}

(***************************************************************************)
(* rapidfuzz: fuzz.WRatio, process.extract and process.extractOne.         *)
(***************************************************************************)
\* The characters of each string of the universe.
Chars(s) ==
    CASE s = "n001" -> <<"n", "0", "0", "1">>
      [] s = "n002" -> <<"n", "0", "0", "2">>
      [] s = "n003" -> <<"n", "0", "0", "3">>
      [] s = "seed" -> <<"s", "e", "e", "d">>
      [] s = "seem" -> <<"s", "e", "e", "m">>
      [] s = "zzzz" -> <<"z", "z", "z", "z">>
      [] s = "" -> <<>>

Max(a, b) == IF a >= b THEN a ELSE b

\* Length of the longest common subsequence of the sequences a and b.
RECURSIVE LCS(_, _)
LCS(a, b) ==
    IF a = <<>> \/ b = <<>> THEN 0
    ELSE IF Head(a) = Head(b) THEN 1 + LCS(Tail(a), Tail(b))
    ELSE Max(LCS(Tail(a), b), LCS(a, Tail(b)))

Strs == {"n001", "n002", "n003", "seed", "seem", "zzzz", ""}

\* fuzz.ratio on the strings of the universe: the normalised Indel
\* similarity 100 * 2 * LCS / (len1 + len2), of which the integer part is
\* kept (it compares with an integer min_score as the float does).
RatioTable ==
    LET ratio(a, b) == IF a = <<>> \/ b = <<>> THEN 0
                       ELSE (200 * LCS(a, b)) \div (Len(a) + Len(b))
    IN  [s1 \in Strs, s2 \in Strs |-> ratio(Chars(s1), Chars(s2))]

\* fuzz.WRatio(s1, s2): 0 when either string is None or empty.  The strings
\* of the universe are single tokens whose length ratio is below 1.5, where
\* WRatio is fuzz.ratio.
WRatio(s1, s2) ==
    IF s1 = None \/ s2 = None THEN 0 ELSE RatioTable[s1, s2]

\* Stable insertion of the match m into the list ms kept in descending score.
RECURSIVE InsertDesc(_, _)
InsertDesc(ms, m) ==
    IF ms = <<>> THEN <<m>>
    ELSE IF Head(ms).score >= m.score THEN <<Head(ms)>> \o InsertDesc(Tail(ms), m)
    ELSE <<m>> \o ms

RECURSIVE SortDesc(_)
SortDesc(ms) ==
    IF ms = <<>> THEN <<>>
    ELSE InsertDesc(SortDesc(SubSeq(ms, 1, Len(ms) - 1)), ms[Len(ms)])

\* process.extract(query, choices, scorer=WRatio, limit): choices is a dict
\* given as a sequence of [key, choice] in dict order; a None choice is
\* skipped; the matches are sorted by descending score, ties in dict order,
\* and cut to limit.
extract(query, choices, limit) ==
    LET scored == [i \in 1..Len(choices) |->
                      [choice |-> choices[i].choice,
                       score |-> WRatio(query, choices[i].choice),
                       key |-> choices[i].key]]
        usable == SelectSeq(scored, LAMBDA m : m.choice # None)
        cut(sorted) == SubSeq(sorted, 1, IF Len(sorted) < limit THEN Len(sorted) ELSE limit)
    IN  cut(SortDesc(usable))

\* process.extractOne(query, choices, scorer=WRatio): the first best match,
\* None (NoneDict) when there is no usable choice.
\* Mutant: the match of lowest score is returned.
extractOne_Worst(query, choices) ==
    LET last(ms) == IF ms = <<>> THEN NoneDict ELSE ms[Len(ms)]
    IN  last(extract(query, choices, Len(choices)))

extractOne(query, choices) ==
    LET first(ms) == IF ms = <<>> THEN NoneDict ELSE ms[1]
    IN  first(extract(query, choices, 1))

(***************************************************************************)
(* text2trait_forntend_app/src/utils/search_utils.py                       *)
(***************************************************************************)
TRAIT_LABELS == {"Trait", "Trait / Phenotype"}

is_trait_node(node_data) == node_data.label \in TRAIT_LABELS

is_gene_node(node_data) == node_data.label = "Gene"

get_node_name(g, node_id) == Get(g.attr[node_id], "text", node_id)

DefaultLimit == 5
DefaultMinScore == 70

\* Mutant: the matches are not filtered by min_score.
find_best_traits_NoFloor(g, trait_query, limit, min_score) ==
    LET trait_nodes(ids) == [i \in 1..Len(ids) |->
                                [key |-> ids[i], choice |-> Get(g.attr[ids[i]], "text", ids[i])]]
        pairs(kept) == [i \in 1..Len(kept) |->
                           [node_id |-> kept[i].key, score |-> kept[i].score]]
    IN  pairs(extract(trait_query,
                      trait_nodes(SelectSeq(g.nodes, LAMBDA n : is_trait_node(g.attr[n]))),
                      limit))

\* Mutant: the comparison with min_score is inverted.
find_best_traits_Below(g, trait_query, limit, min_score) ==
    LET trait_nodes(ids) == [i \in 1..Len(ids) |->
                                [key |-> ids[i], choice |-> Get(g.attr[ids[i]], "text", ids[i])]]
        pairs(kept) == [i \in 1..Len(kept) |->
                           [node_id |-> kept[i].key, score |-> kept[i].score]]
        matches == extract(trait_query,
                           trait_nodes(SelectSeq(g.nodes, LAMBDA n : is_trait_node(g.attr[n]))),
                           limit)
    IN  pairs(SelectSeq(matches, LAMBDA m : m.score <= min_score))

find_best_traits(g, trait_query, limit, min_score) ==
    LET trait_nodes(ids) == [i \in 1..Len(ids) |->
                                [key |-> ids[i], choice |-> Get(g.attr[ids[i]], "text", ids[i])]]
        pairs(kept) == [i \in 1..Len(kept) |->
                           [node_id |-> kept[i].key, score |-> kept[i].score]]
        matches == extract(trait_query,
                           trait_nodes(SelectSeq(g.nodes, LAMBDA n : is_trait_node(g.attr[n]))),
                           limit)
    IN  pairs(SelectSeq(matches, LAMBDA m : m.score >= min_score))

\* Mutant: the exact-id test is left out, the trait is always matched by text.
ResolveTraitId_FuzzyOnly(g, trait_query, min_score) ==
    LET first(matches) == IF matches = <<>> THEN None ELSE matches[1].node_id
    IN  first(find_best_traits(g, trait_query, DefaultLimit, min_score))

\* The trait chosen by resolve_trait_and_genes, None when there is none.
ResolveTraitId(g, trait_query, min_score) ==
    IF HasNode(g, trait_query) /\ is_trait_node(g.attr[trait_query])
    THEN trait_query
    ELSE LET first(matches) == IF matches = <<>> THEN None ELSE matches[1].node_id
         IN  first(find_best_traits(g, trait_query, DefaultLimit, min_score))

\* Mutant: only the predecessors of the trait are collected.
Neighbours_PredOnly(g, n) == PredSet(g, n)

\* The neighbours that resolve_trait_and_genes iterates over: a Python set,
\* whose iteration order the caller fixes as nbrs.
Neighbours(g, n) == PredSet(g, n) \cup SuccSet(g, n)

\* Mutant: the gene query is matched by name only, never by id.
resolve_trait_and_genes_FuzzyGene(g, trait_query, gene_query, min_score, nbrs) ==
    LET candidate_genes(gene_nbrs) ==
            [i \in 1..Len(gene_nbrs) |->
                [gene_id |-> gene_nbrs[i], gene_name |-> get_node_name(g, gene_nbrs[i])]]
        gene_dict(genes) == [i \in 1..Len(genes) |->
                                [key |-> genes[i].gene_id, choice |-> genes[i].gene_name]]
        by_name(genes, best_match) ==
            IF best_match # NoneDict /\ best_match.score >= min_score
            THEN SelectSeq(genes, LAMBDA c : c.gene_id = best_match.key)
            ELSE <<>>
        matched_genes(genes) ==
            IF gene_query \notin {None, ""} /\ genes # <<>>
            THEN by_name(genes, extractOne(gene_query, gene_dict(genes)))
            ELSE genes
        result(trait_id) ==
            IF trait_id = None THEN NoneDict
            ELSE [trait_id |-> trait_id,
                  trait_name |-> get_node_name(g, trait_id),
                  matched_genes |->
                      matched_genes(candidate_genes(
                          SelectSeq(nbrs, LAMBDA n : is_gene_node(g.attr[n]))))]
    IN  result(ResolveTraitId(g, trait_query, min_score))

resolve_trait_and_genes(g, trait_query, gene_query, min_score, nbrs) ==
    LET candidate_genes(gene_nbrs) ==
            [i \in 1..Len(gene_nbrs) |->
                [gene_id |-> gene_nbrs[i], gene_name |-> get_node_name(g, gene_nbrs[i])]]
        gene_dict(genes) == [i \in 1..Len(genes) |->
                                [key |-> genes[i].gene_id, choice |-> genes[i].gene_name]]
        by_name(genes, best_match) ==
            IF best_match # NoneDict /\ best_match.score >= min_score
            THEN SelectSeq(genes, LAMBDA c : c.gene_id = best_match.key)
            ELSE <<>>
        matched_genes(genes) ==
            IF gene_query \notin {None, ""} /\ genes # <<>>
            THEN IF gene_query \in {genes[i].gene_id : i \in 1..Len(genes)}
                 THEN SelectSeq(genes, LAMBDA c : c.gene_id = gene_query)
                 ELSE by_name(genes, extractOne(gene_query, gene_dict(genes)))
            ELSE genes
        result(trait_id) ==
            IF trait_id = None THEN NoneDict
            ELSE [trait_id |-> trait_id,
                  trait_name |-> get_node_name(g, trait_id),
                  matched_genes |->
                      matched_genes(candidate_genes(
                          SelectSeq(nbrs, LAMBDA n : is_gene_node(g.attr[n]))))]
    IN  result(ResolveTraitId(g, trait_query, min_score))

TraitQueries == {"n001", "seem", "zzzz"}
GeneQueries == {None, "", "n003", "seem", "zzzz"}

Idle == [op |-> "idle"]

\* resolve_trait_and_genes(G, trait_query, gene_query)
Resolve ==
    /\ out = Idle
    /\ \E tq \in TraitQueries, gq \in GeneQueries :
      LET tid == ResolveTraitId(G, tq, DefaultMinScore)
      IN  \E nbrs \in (IF tid = None THEN {<<>>} ELSE Perms(Neighbours(G, tid))) :
            /\ out' = [op |-> "resolve", trait_query |-> tq, gene_query |-> gq,
                       result |-> resolve_trait_and_genes(G, tq, gq, DefaultMinScore, nbrs)]
            /\ UNCHANGED <<nodes_in, edges_in, G, cache, disk, procs, page, files>>

\* get_connected_subgraph raised networkx.NetworkXError.
Raised == [raised |-> TRUE]

\* Mutant: the in-edges of the focus nodes are not collected.
RECURSIVE connected_edges_OutOnly(_, _)
connected_edges_OutOnly(g, focus_nodes) ==
    IF focus_nodes = <<>> THEN <<>>
    ELSE LET n == Head(focus_nodes)
             outs == successors(g, n)
         IN  [i \in 1..Len(outs) |->
                 [source |-> n, target |-> outs[i][2], type |-> g.eattr[outs[i]].type]]
             \o connected_edges_OutOnly(g, Tail(focus_nodes))

\* The (source, target, edge data) triples collected for the focus list: per
\* focus node its out-edges, then its in-edges, in adjacency order.
RECURSIVE connected_edges(_, _)
connected_edges(g, focus_nodes) ==
    IF focus_nodes = <<>> THEN <<>>
    ELSE LET n == Head(focus_nodes)
             outs == successors(g, n)
             ins == predecessors(g, n)
         IN  [i \in 1..Len(outs) |->
                 [source |-> n, target |-> outs[i][2], type |-> g.eattr[outs[i]].type]]
             \o [i \in 1..Len(ins) |->
                 [source |-> ins[i][1], target |-> n, type |-> g.eattr[ins[i]].type]]
             \o connected_edges(g, Tail(focus_nodes))

\* Mutant: the neighbours of the neighbours are collected too.
connected_nodes_TwoHop(g, focus_nodes) ==
    LET hop(ns) == ns \cup UNION {SuccSet(g, n) \cup PredSet(g, n) : n \in ns}
    IN  hop(hop(Range(focus_nodes)))

connected_nodes(g, focus_nodes) ==
    Range(focus_nodes)
    \cup UNION {SuccSet(g, n) \cup PredSet(g, n) : n \in Range(focus_nodes)}

\* get_connected_subgraph(graph, focus_nodes).  The node list is built from a
\* Python set; it is given here in the graph's node order.
get_connected_subgraph(g, focus_nodes) ==
    IF \E n \in Range(focus_nodes) : ~HasNode(g, n) THEN Raised
    ELSE LET nids == SelectSeq(g.nodes, LAMBDA n : n \in connected_nodes(g, focus_nodes))
         IN  [nodes |-> [i \in 1..Len(nids) |->
                            [id |-> nids[i],
                             label |-> Get(g.attr[nids[i]], "label", "unknown"),
                             text |-> get_node_name(g, nids[i])]],
              edges |-> connected_edges(g, focus_nodes)]

\* Mutant: the entry is made by writing source and target into edata, the
\* graph's own attribute dict of the edge.
edata_after_InPlace(src, tgt, edata) ==
    [type |-> edata.type, source |-> src, target |-> tgt]

\* {"source": src, "target": tgt, **(edata or {})}: edata is the attribute
\* dict that graph.get_edge_data returned, the graph's own; the entry is a
\* new dict and edata is as it was.
edata_after(src, tgt, edata) == edata

\* The graph once edges_data has been built from the collected triples.
RECURSIVE graph_after_edges(_, _)
graph_after_edges(g, triples) ==
    IF triples = <<>> THEN g
    ELSE LET e == <<Head(triples).source, Head(triples).target>>
         IN  graph_after_edges(
                 [g EXCEPT !.eattr[e] = edata_after(e[1], e[2], g.eattr[e])],
                 Tail(triples))

\* The graph that get_connected_subgraph(graph, focus_nodes) leaves behind.
graph_after_subgraph(g, focus_nodes) ==
    IF \E n \in Range(focus_nodes) : ~HasNode(g, n) THEN g
    ELSE graph_after_edges(g, connected_edges(g, focus_nodes))

FocusLists == {<<n>> : n \in Ids} \cup {<<n, m>> : n, m \in Ids}

\* get_connected_subgraph(G, focus_nodes)
Expand ==
    /\ out = Idle
    /\ \E focus \in FocusLists :
        /\ out' = [op |-> "expand", focus_nodes |-> focus,
                   result |-> get_connected_subgraph(G, focus)]
        /\ G' = graph_after_subgraph(G, focus)
        /\ UNCHANGED <<nodes_in, edges_in, cache, disk, procs, page, files>>

(***************************************************************************)
(* gwas_frontend_app/src/utils/search_utils.py                             *)
(***************************************************************************)
INFLUENCE_RELATIONS ==
    {"ASSOCIATED_WITH", "CAUSES", "CONTRIBUTES_TO", "ENCODES", "HAS_MEASUREMENT",
     "IDENTIFIED_IN", "IS_A", "LOCATED_IN", "NOT_ASSOCIATED_WITH", "PART_OF",
     "REGULATES", "USED_IN"}

MatchLimit == 1

gwas_find_best_traits(g, trait_query, limit, min_score) ==
    LET trait_nodes(ids) == [i \in 1..Len(ids) |->
                                [key |-> ids[i], choice |-> g.attr[ids[i]].text]]
        pairs(kept) == [i \in 1..Len(kept) |->
                           [node_id |-> kept[i].key, score |-> kept[i].score]]
        matches == extract(trait_query,
                           trait_nodes(SelectSeq(g.nodes, LAMBDA n : is_trait_node(g.attr[n]))),
                           limit)
    IN  pairs(SelectSeq(matches, LAMBDA m : m.score >= min_score))

GwasResolveTraitId(g, trait_query, min_score) ==
    IF HasNode(g, trait_query) /\ is_trait_node(g.attr[trait_query])
    THEN trait_query
    ELSE LET first(matches) == IF matches = <<>> THEN None ELSE matches[1].node_id
         IN  first(gwas_find_best_traits(g, trait_query, MatchLimit, min_score))

\* The keys of a dict built from the sequence ids, in first-insertion order.
RECURSIVE DictKeys(_)
DictKeys(ids) ==
    IF ids = <<>> THEN <<>>
    ELSE LET front == DictKeys(SubSeq(ids, 1, Len(ids) - 1))
             last == ids[Len(ids)]
         IN  IF last \in Range(front) THEN front ELSE Append(front, last)

get_genes_influencing_trait(g, trait_query, gene_query, min_score) ==
    LET entries(ins, outs, trait_id) ==
            [i \in 1..Len(ins) |->
                [gene_id |-> ins[i][1], gene_name |-> get_node_name(g, ins[i][1]),
                 relation_type |-> g.eattr[ins[i]].type, direction |-> "gene -> trait"]]
            \o [i \in 1..Len(outs) |->
                [gene_id |-> outs[i][2], gene_name |-> get_node_name(g, outs[i][2]),
                 relation_type |-> g.eattr[outs[i]].type, direction |-> "trait -> gene"]]
        all_genes(trait_id) ==
            entries(SelectSeq(predecessors(g, trait_id),
                              LAMBDA e : /\ is_gene_node(g.attr[e[1]])
                                         /\ g.eattr[e].type \in INFLUENCE_RELATIONS),
                    SelectSeq(successors(g, trait_id),
                              LAMBDA e : /\ is_gene_node(g.attr[e[2]])
                                         /\ g.eattr[e].type \in INFLUENCE_RELATIONS),
                    trait_id)
        gene_dict(keys) == [i \in 1..Len(keys) |->
                               [key |-> keys[i], choice |-> get_node_name(g, keys[i])]]
        by_name(genes, best_match) ==
            IF best_match # NoneDict /\ best_match.score >= min_score
            THEN SelectSeq(genes, LAMBDA c : c.gene_id = best_match.key)
            ELSE <<>>
        filtered(genes, keys) ==
            IF gene_query \in {None, ""} THEN genes
            ELSE IF genes = <<>> THEN <<>>
            ELSE IF gene_query \in Range(keys)
            THEN SelectSeq(genes, LAMBDA c : c.gene_id = gene_query)
            ELSE by_name(genes, extractOne(gene_query, gene_dict(keys)))
        matched_genes(genes) ==
            filtered(genes, DictKeys([i \in 1..Len(genes) |-> genes[i].gene_id]))
        result(trait_id) ==
            IF trait_id = None THEN NoneDict
            ELSE [trait_id |-> trait_id,
                  trait_name |-> get_node_name(g, trait_id),
                  matched_genes |-> matched_genes(all_genes(trait_id))]
    IN  result(GwasResolveTraitId(g, trait_query, min_score))

\* get_genes_influencing_trait(G, trait_query, gene_query)
ResolveGwas ==
    /\ out = Idle
    /\ \E tq \in TraitQueries, gq \in GeneQueries :
        /\ out' = [op |-> "resolve_gwas", trait_query |-> tq, gene_query |-> gq,
                   result |-> get_genes_influencing_trait(G, tq, gq, DefaultMinScore)]
        /\ UNCHANGED <<nodes_in, edges_in, G, cache, disk, procs, page, files>>

Init ==
    /\ nodes_in \in NodeFiles
    /\ edges_in \in EdgeFiles
    /\ G = load_graph(nodes_in, edges_in)
    /\ out = Idle
    /\ cache = <<>>
    /\ disk = <<>>
    /\ procs = <<>>
    /\ page = Layout
    /\ files = <<>>

\* The callback returns its value to the framework; the next request follows.
Respond ==
    /\ out # Idle
    /\ out' = Idle
    /\ UNCHANGED <<nodes_in, edges_in, G, cache, disk, procs, page, files>>

Next == Resolve \/ ResolveGwas \/ Expand \/ Respond

Spec == Init /\ [][Next]_vars

(***************************************************************************)
(* Properties of resolution and expansion (specification Spec).            *)
(***************************************************************************)
IsResolve == out.op \in {"resolve", "resolve_gwas"}

\* The text a fuzzy match scores for node n (None is never scored).
TextOf(n) == IF G.attr[n].text = Missing THEN n ELSE G.attr[n].text

TraitIdQueried ==
    /\ IsResolve
    /\ HasNode(G, out.trait_query)
    /\ G.attr[out.trait_query].label \in {"Trait", "Trait / Phenotype"}

\* C1: when the trait query is the id of a node labelled Trait or
\* Trait / Phenotype, both resolvers select that node, whatever the fuzzy
\* scores of the query against the texts of the trait nodes.
C1_ExactIdPriority ==
    TraitIdQueried => /\ out.result # NoneDict
                      /\ out.result.trait_id = out.trait_query

\* C1 witness: the queried id is a trait and another trait's text scores
\* higher against the query (and clears min_score) than the node's own text.
C1_Witness ==
    /\ TraitIdQueried
    /\ out.op = "resolve"
    /\ \E m \in Range(G.nodes) :
          /\ m # out.trait_query
          /\ G.attr[m].label \in {"Trait", "Trait / Phenotype"}
          /\ WRatio(out.trait_query, TextOf(m)) >= DefaultMinScore
          /\ WRatio(out.trait_query, TextOf(m))
                > WRatio(out.trait_query, TextOf(out.trait_query))

NoGeneQuery ==
    /\ IsResolve
    /\ out.gene_query \in {None, ""}
    /\ out.result # NoneDict

EdgeFrom(a, b) == \E i \in 1..Len(G.edges) : G.edges[i] = <<a, b>>

\* The Gene-labelled nodes joined to trait t by an edge in either direction.
AdjacentGenes(t) ==
    {n \in Range(G.nodes) : G.attr[n].label = "Gene" /\ (EdgeFrom(n, t) \/ EdgeFrom(t, n))}

MatchedIds == [i \in 1..Len(out.result.matched_genes) |-> out.result.matched_genes[i].gene_id]

EachOnce(seq) == \A i, j \in 1..Len(seq) : seq[i] = seq[j] => i = j

\* C2 as stated: with no gene query every resolver returns exactly the
\* adjacent genes, each once.
C2_Original ==
    NoGeneQuery => /\ Range(MatchedIds) = AdjacentGenes(out.result.trait_id)
                   /\ EachOnce(MatchedIds)

\* The (gene, direction) pairs the GWAS resolver reports: one per edge
\* between a gene and trait t whose type is an influence relation.
InfluencePairs(t) ==
    {<<n, "gene -> trait">> : n \in {m \in Range(G.nodes) :
          /\ G.attr[m].label = "Gene"
          /\ EdgeFrom(m, t)
          /\ G.eattr[<<m, t>>].type \in INFLUENCE_RELATIONS}}
    \cup {<<n, "trait -> gene">> : n \in {m \in Range(G.nodes) :
          /\ G.attr[m].label = "Gene"
          /\ EdgeFrom(t, m)
          /\ G.eattr[<<t, m>>].type \in INFLUENCE_RELATIONS}}

MatchedPairs ==
    [i \in 1..Len(out.result.matched_genes) |->
        <<out.result.matched_genes[i].gene_id, out.result.matched_genes[i].direction>>]

\* C2 (amended): with no gene query resolve_trait_and_genes returns exactly
\* the Gene nodes adjacent to the trait in either direction and by any
\* relation type, each once; get_genes_influencing_trait returns one entry
\* per direction for each gene joined to the trait by an influence relation.
C2_AllConnectedGenes ==
    NoGeneQuery =>
        IF out.op = "resolve"
        THEN /\ Range(MatchedIds) = AdjacentGenes(out.result.trait_id)
             /\ EachOnce(MatchedIds)
        ELSE /\ Range(MatchedPairs) = InfluencePairs(out.result.trait_id)
             /\ EachOnce(MatchedPairs)

\* C2 witness: no gene query, and a gene joined to the trait in both
\* directions, one of the edges not an influence relation.
C2_Witness ==
    /\ NoGeneQuery
    /\ out.op = "resolve"
    /\ \E n \in AdjacentGenes(out.result.trait_id) :
          /\ EdgeFrom(n, out.result.trait_id)
          /\ EdgeFrom(out.result.trait_id, n)
          /\ G.eattr[<<n, out.result.trait_id>>].type \notin INFLUENCE_RELATIONS

SingleFocus ==
    /\ out.op = "expand"
    /\ Len(out.focus_nodes) = 1
    /\ out.result # Raised

FocusNode == out.focus_nodes[1]

Near(n) == {n} \cup {m \in Range(G.nodes) : EdgeFrom(n, m) \/ EdgeFrom(m, n)}

\* C6: the expansion of a single focus node N returns every edge of the
\* graph whose source or target is N, and no edge of which neither endpoint
\* is N or a direct neighbour of N.
C6_ExpansionSymmetry ==
    SingleFocus =>
        /\ \A i \in 1..Len(G.edges) :
              FocusNode \in {G.edges[i][1], G.edges[i][2]} =>
                  \E k \in 1..Len(out.result.edges) :
                      out.result.edges[k] = [source |-> G.edges[i][1],
                                             target |-> G.edges[i][2],
                                             type |-> G.eattr[G.edges[i]].type]
        /\ \A k \in 1..Len(out.result.edges) :
              \/ out.result.edges[k].source \in Near(FocusNode)
              \/ out.result.edges[k].target \in Near(FocusNode)

\* C6 witness: N has an in-edge, and the graph holds an edge far from N.
C6_Witness ==
    /\ SingleFocus
    /\ \E i \in 1..Len(G.edges) : G.edges[i][2] = FocusNode /\ G.edges[i][1] # FocusNode
    /\ \E i \in 1..Len(G.edges) :
          G.edges[i][1] \notin Near(FocusNode) /\ G.edges[i][2] \notin Near(FocusNode)

\* C7 as stated: two edge records with the same (source, target) and
\* different types are both returned, each with its type, by the expansion
\* from either endpoint.
C7_ParallelEdgesKept ==
    SingleFocus =>
        \A i, j \in 1..Len(edges_in) :
            ( /\ edges_in[i].source = edges_in[j].source
              /\ edges_in[i].target = edges_in[j].target
              /\ edges_in[i].type # edges_in[j].type
              /\ FocusNode \in {edges_in[i].source, edges_in[i].target} )
            => \E k \in 1..Len(out.result.edges) : out.result.edges[k] = edges_in[i]

NodeFileIds == {nodes_in[i].id : i \in 1..Len(nodes_in)}

\* C8 as stated: an edge record whose target is absent from the node list
\* raises no error and is not part of any expansion from listed nodes.
C8_DanglingEdgeSkipped ==
    (out.op = "expand" /\ Range(out.focus_nodes) \subseteq NodeFileIds) =>
        /\ out.result # Raised
        /\ \A i \in 1..Len(edges_in) :
              edges_in[i].target \notin NodeFileIds =>
                  \A k \in 1..Len(out.result.edges) :
                      <<out.result.edges[k].source, out.result.edges[k].target>>
                          # <<edges_in[i].source, edges_in[i].target>>

(***************************************************************************)
(* text2trait_forntend_app/src/utils/search_NCBI.py                        *)
(*                                                                         *)
(* A record stands for the dict the code returns; the normalised fields of *)
(* a document summary are its data.  The cache key f"{type}:{name}" is the *)
(* pair <<type, name>>.  What Entrez answers to one lookup is an input:    *)
(*   "raise"    esearch raises (network or parse error)                    *)
(*   "no_ids"   esearch returns an empty IdList                            *)
(*   "no_docs"  esummary returns no DocumentSummary                        *)
(*   "found"    esummary returns a summary for the name                    *)
(***************************************************************************)
MaxBatch == 2

Service == {"raise", "no_ids", "no_docs", "found"}

EmptyRec ==
    [query |-> Missing, not_found |-> Missing, error |-> Missing, data |-> Missing,
     type |-> Missing, key |-> Missing, graph_id |-> Missing, graph_name |-> Missing]

NotFoundRec(name) == [EmptyRec EXCEPT !.query = name, !.not_found = PyTrue]

\* The outcome of one lookup: the dict returned (info), or raised; the Entrez
\* requests made (net); whether time.sleep(_SLEEP_BETWEEN_CALLS) ran (slept);
\* ref is the cache key whose dict object info is, NoKey for a fresh dict.
NoKey == <<>>

Outcome(info, ref, raised, net, slept, c, d) ==
    [info |-> info, ref |-> ref, raised |-> raised, net |-> net, slept |-> slept,
     cache |-> c, disk |-> d]

Put(c, key, rec) == [k \in DOMAIN c \cup {key} |-> IF k = key THEN rec ELSE c[k]]

\* _save_cache(cache): the whole dict is written to the file.
save_cache(c) == c

\* fetch_gene_info_by_name(name, organism=None)
fetch_gene_info_by_name(name, svc, c, d) ==
    CASE svc = "raise" -> Outcome(EmptyRec, NoKey, TRUE, 1, FALSE, c, d)
      [] svc = "no_ids" -> Outcome(NotFoundRec(name), NoKey, FALSE, 1, FALSE, c, d)
      [] svc = "no_docs" -> Outcome(NotFoundRec(name), NoKey, FALSE, 2, FALSE, c, d)
      [] svc = "found" ->
            Outcome([EmptyRec EXCEPT !.query = name, !.data = <<"gene", name>>],
                    NoKey, FALSE, 2, TRUE, c, d)

\* fetch_protein_info(name, organism=None)
fetch_protein_info(name, svc, c, d) ==
    LET key == <<"protein", name>>
    IN  IF key \in DOMAIN c THEN Outcome(c[key], key, FALSE, 0, FALSE, c, d)
        ELSE CASE svc = "raise" -> Outcome(EmptyRec, NoKey, TRUE, 1, FALSE, c, d)
               [] svc = "no_ids" -> Outcome(NotFoundRec(name), NoKey, FALSE, 1, FALSE, c, d)
               [] svc = "no_docs" -> Outcome(NotFoundRec(name), NoKey, FALSE, 2, FALSE, c, d)
               [] svc = "found" ->
                     LET result == [EmptyRec EXCEPT !.query = name,
                                                    !.data = <<"protein", name>>]
                         c1 == Put(c, key, result)
                     IN  Outcome(result, key, FALSE, 2, TRUE, c1, save_cache(c1))

\* One iteration of the loop of fetch_multiple_nodes_info.  st holds the
\* cache, the file, the results so far (a dict of the cache is held by its
\* key: it is the same object) and the log of the lookups.
NodeStep(st, node, svc) ==
    LET node_type == Get(node, "type", "gene")
        name_or_id == node.name
        node_id == IF node.id \in {Missing, None, ""} THEN name_or_id ELSE node.id
        tagged(info) == [info EXCEPT !.key = <<node_type, node_id>>,
                                     !.graph_id = node_id,
                                     !.graph_name = name_or_id]
        failed == [EmptyRec EXCEPT !.key = <<node_type, name_or_id>>,
                                   !.not_found = PyTrue,
                                   !.error = "exception"]
        entry(o) == [net |-> o.net, slept |-> o.slept, raised |-> o.raised]
        after(o) ==
            IF o.raised
            THEN [st EXCEPT !.results = Append(@, [ref |-> NoKey, val |-> failed]),
                            !.log = Append(@, entry(o))]
            ELSE IF o.ref # NoKey
            THEN [st EXCEPT !.cache = Put(o.cache, o.ref, tagged(o.info)),
                            !.disk = o.disk,
                            !.results = Append(@, [ref |-> o.ref, val |-> EmptyRec]),
                            !.log = Append(@, entry(o))]
            ELSE [st EXCEPT !.cache = o.cache,
                            !.disk = o.disk,
                            !.results = Append(@, [ref |-> NoKey, val |-> tagged(o.info)]),
                            !.log = Append(@, entry(o))]
    IN  after(CASE node_type = "gene" ->
                      fetch_gene_info_by_name(name_or_id, svc, st.cache, st.disk)
                [] node_type = "protein" ->
                      fetch_protein_info(name_or_id, svc, st.cache, st.disk)
                [] OTHER -> Outcome([NotFoundRec(name_or_id) EXCEPT !.type = node_type],
                                    NoKey, FALSE, 0, FALSE, st.cache, st.disk))

\* Mutant: the loop ends at the first lookup that raises.
RECURSIVE NodeLoop_AbortOnRaise(_, _, _)
NodeLoop_AbortOnRaise(st, nodes, svcs) ==
    IF nodes = <<>> THEN st
    ELSE LET next(st1) == IF st1.log[Len(st1.log)].raised THEN st
                          ELSE NodeLoop_AbortOnRaise(st1, Tail(nodes), Tail(svcs))
         IN  next(NodeStep(st, Head(nodes), Head(svcs)))

RECURSIVE NodeLoop(_, _, _)
NodeLoop(st, nodes, svcs) ==
    IF nodes = <<>> THEN st
    ELSE NodeLoop(NodeStep(st, Head(nodes), Head(svcs)), Tail(nodes), Tail(svcs))

\* fetch_multiple_nodes_info(nodes): the final state of the loop, with the
\* returned list holding each dict as it is when the function returns.
fetch_multiple_nodes_info(nodes, svcs, c, d) ==
    LET returned(st) ==
            [cache |-> st.cache, disk |-> st.disk, log |-> st.log,
             results |-> [i \in 1..Len(st.results) |->
                             IF st.results[i].ref # NoKey THEN st.cache[st.results[i].ref]
                             ELSE st.results[i].val]]
    IN  returned(NodeLoop([cache |-> c, disk |-> d, results |-> <<>>, log |-> <<>>],
                          nodes, svcs))

Names == {"ft1", "co1"}

\* The entities a batch may hold: two share a name and differ in id, one has
\* no id, one is of a type that is neither gene nor protein.
Entities ==
    { [name |-> "ft1", type |-> "gene", id |-> "n001"],
      [name |-> "ft1", type |-> "protein", id |-> "n001"],
      [name |-> "ft1", type |-> "protein", id |-> "n002"],
      [name |-> "co1", type |-> "protein", id |-> Missing],
      [name |-> "co1", type |-> "variant", id |-> "n003"] }

Batches == UNION {[1..n -> Entities] : n \in 0..MaxBatch}

\* fetch_multiple_nodes_info(nodes_to_fetch), as called by fetch_ncbi_data
FetchMany ==
    /\ out = Idle
    /\ \E nodes \in Batches : \E svcs \in [1..Len(nodes) -> Service] :
         LET r == fetch_multiple_nodes_info(nodes, svcs, cache, disk)
         IN  /\ out' = [op |-> "fetch_many", nodes |-> nodes,
                        results |-> r.results, log |-> r.log]
             /\ cache' = r.cache
             /\ disk' = r.disk
    /\ UNCHANGED <<nodes_in, edges_in, G, procs, page, files>>

\* One direct call of fetch_gene_info_by_name or fetch_protein_info.  The
\* call may follow another direct call at once; repeat says that the call
\* before it returned (did not raise) and had the same arguments, and first
\* is what that call returned.
Lookup(fn, name, svc) ==
    LET o == IF fn = "gene" THEN fetch_gene_info_by_name(name, svc, cache, disk)
             ELSE fetch_protein_info(name, svc, cache, disk)
        again == /\ out # Idle
                 /\ ~out.raised
                 /\ out.fn = fn
                 /\ out.name = name
    IN  /\ out' = [op |-> "lookup", fn |-> fn, name |-> name, raised |-> o.raised,
                   info |-> o.info, net |-> o.net, slept |-> o.slept,
                   repeat |-> again,
                   first |-> IF again THEN out.info ELSE EmptyRec]
        /\ cache' = o.cache
        /\ disk' = o.disk
        /\ UNCHANGED <<nodes_in, edges_in, G, procs, page, files>>

FetchOne ==
    /\ \/ out = Idle
       \/ out.op = "lookup"
    /\ \E fn \in {"gene", "protein"}, name \in Names, svc \in Service : Lookup(fn, name, svc)

(***************************************************************************)
(* gwas_frontend_app/src/utils/search_NCBI.py                              *)
(***************************************************************************)
\* fetch_gene_info_by_name(name, organism=None) of the GWAS app
gwas_fetch_gene_info_by_name(name, svc) ==
    CASE svc = "raise" -> [info |-> EmptyRec, raised |-> TRUE, net |-> 1, slept |-> FALSE]
      [] svc = "no_ids" ->
            [info |-> NotFoundRec(name), raised |-> FALSE, net |-> 1, slept |-> FALSE]
      [] svc = "no_docs" ->
            [info |-> NotFoundRec(name), raised |-> FALSE, net |-> 2, slept |-> FALSE]
      [] svc = "found" ->
            [info |-> [EmptyRec EXCEPT !.query = name, !.data = <<"gene", name>>],
             raised |-> FALSE, net |-> 2, slept |-> TRUE]

\* fetch_multiple_genes_info(names)
RECURSIVE fetch_multiple_genes_info(_, _)
fetch_multiple_genes_info(names, svcs) ==
    IF names = <<>> THEN [results |-> <<>>, log |-> <<>>]
    ELSE LET name == Head(names)
             o == gwas_fetch_gene_info_by_name(name, Head(svcs))
             rest == fetch_multiple_genes_info(Tail(names), Tail(svcs))
             rec == IF o.raised
                    THEN [EmptyRec EXCEPT !.query = name, !.error = "exception"]
                    ELSE o.info
         IN  [results |-> <<rec>> \o rest.results,
              log |-> <<[net |-> o.net, slept |-> o.slept, raised |-> o.raised]>> \o rest.log]

NameLists == UNION {[1..n -> Names] : n \in 0..MaxBatch}

\* fetch_multiple_genes_info(query_names), as called by the GWAS fetch_ncbi_data
FetchManyGwas ==
    /\ out = Idle
    /\ \E names \in NameLists : \E svcs \in [1..Len(names) -> Service] :
         LET r == fetch_multiple_genes_info(names, svcs)
         IN  out' = [op |-> "fetch_many_gwas", nodes |-> names,
                     results |-> r.results, log |-> r.log]
    /\ UNCHANGED <<nodes_in, edges_in, G, cache, disk, procs, page, files>>

RespondNcbi ==
    /\ out # Idle
    /\ out' = Idle
    /\ UNCHANGED <<nodes_in, edges_in, G, cache, disk, procs, page, files>>

InitNcbi ==
    /\ nodes_in = <<>>
    /\ edges_in = <<>>
    /\ G = EmptyGraph
    /\ out = Idle
    /\ disk = <<>>
    /\ cache = disk
    /\ procs = <<>>
    /\ page = Layout
    /\ files = <<>>

NextNcbi == FetchMany \/ FetchManyGwas \/ FetchOne \/ RespondNcbi

SpecNcbi == InitNcbi /\ [][NextNcbi]_vars
(***************************************************************************)
(* Properties of the NCBI client (specification SpecNcbi).                 *)
(***************************************************************************)
\* C3 as stated: a by-name lookup that returns and repeats the call before
\* it (same function, same name, that call returned a record or not_found)
\* makes no Entrez request.
C3_SecondCallFromCache ==
    (out.op = "lookup" /\ out.repeat /\ ~out.raised) => out.net = 0

IsBatch == out.op \in {"fetch_many", "fetch_many_gwas"}

NameOf(node) == IF out.op = "fetch_many" THEN node.name ELSE node

WantedKey(node) ==
    <<IF node.type = Missing THEN "gene" ELSE node.type,
      IF node.id \in {Missing, None, ""} THEN node.name ELSE node.id>>

\* C5 as stated: for every input entity the output of the batch holds a
\* record whose _key is "type:id".
C5_KeyPerEntity ==
    out.op = "fetch_many" =>
        \A i \in 1..Len(out.nodes) :
            \E k \in 1..Len(out.results) : out.results[k].key = WantedKey(out.nodes[i])

\* C9 as stated: a lookup that contacts Entrez and returns has slept before
\* it returns, a lookup served from the cache has not; so in a batch a sleep
\* lies between any two lookups that contact Entrez.
C9_DelayAfterEveryRoundTrip ==
    /\ out.op = "lookup" =>
          /\ (out.net > 0 /\ ~out.raised) => out.slept
          /\ out.net = 0 => ~out.slept
    /\ IsBatch =>
          \A i \in 1..Len(out.log) :
              /\ (out.log[i].net > 0 /\ ~out.log[i].raised) => out.log[i].slept
              /\ out.log[i].net = 0 => ~out.log[i].slept

\* C10 as stated: after every completed lookup or batch the file holds the
\* keys and the records of the in-memory cache.
C10_WriteThrough ==
    out.op \in {"lookup", "fetch_many"} => cache = disk

(***************************************************************************)
(* wsgi_t2tfe.py: gunicorn starts several worker processes.  Each imports  *)
(* search_NCBI, loads ncbi_cache.json once into its own _cache and         *)
(* rewrites the whole file from that copy; the file is not locked.         *)
(***************************************************************************)
NumWorkers == 2

Workers == 1..NumWorkers

\* A worker process that has not imported search_NCBI yet.
NotStarted == [up |-> FALSE, cache |-> <<>>]

\* _load_cache(): the dict read from the file ({} when there is no file).
load_cache(d) == d

InitWorkers ==
    /\ nodes_in = <<>>
    /\ edges_in = <<>>
    /\ G = EmptyGraph
    /\ out = Idle
    /\ cache = <<>>
    /\ disk = <<>>
    /\ procs = [w \in Workers |-> NotStarted]
    /\ page = Layout
    /\ files = <<>>

\* Worker w imports search_NCBI: _cache = _load_cache().
WorkerStart ==
    \E w \in Workers :
        /\ ~procs[w].up
        /\ procs' = [procs EXCEPT ![w] = [up |-> TRUE, cache |-> load_cache(disk)]]
        /\ UNCHANGED <<nodes_in, edges_in, G, out, cache, disk, page, files>>

\* Worker w serves fetch_ncbi_data: fetch_multiple_nodes_info on its own
\* _cache and the shared file.
WorkerFetch ==
    \E w \in Workers :
        /\ procs[w].up
        /\ \E nodes \in Batches : \E svcs \in [1..Len(nodes) -> Service] :
             LET done(r) == /\ procs' = [procs EXCEPT ![w].cache = r.cache]
                            /\ disk' = r.disk
             IN  done(fetch_multiple_nodes_info(nodes, svcs, procs[w].cache, disk))
        /\ UNCHANGED <<nodes_in, edges_in, G, out, cache, page, files>>

NextWorkers == WorkerStart \/ WorkerFetch

SpecWorkers == InitWorkers /\ [][NextWorkers]_vars

(***************************************************************************)
(* Properties of the shared cache file (specification SpecWorkers).        *)
(***************************************************************************)
\* C11: a key that is in the cache file stays in the cache file at every
\* later step, whichever worker process performs the step.
C11_KeysStayOnDisk ==
    [][\A k \in DOMAIN disk : k \in DOMAIN disk']_vars

(***************************************************************************)
(* Properties of resolution and expansion, continued (specification Spec). *)
(***************************************************************************)
TraitNodes == {n \in Range(G.nodes) : G.attr[n].label \in {"Trait", "Trait / Phenotype"}}

\* The query is no trait id and no trait text reaches min_score.
NoTraitMatches ==
    /\ IsResolve
    /\ ~TraitIdQueried
    /\ \A n \in TraitNodes : WRatio(out.trait_query, TextOf(n)) < DefaultMinScore

\* C12: when the trait query is not the id of a trait node and no trait
\* node's text scores at least min_score, both resolvers return None (no
\* exception), for every graph.
C12_NotFoundIsNone ==
    NoTraitMatches => out.result = NoneDict

\* C12 witness: the graph has a trait node with a text, the query matches
\* neither its id nor its text, and the resolver returns None.
C12_Witness ==
    /\ NoTraitMatches
    /\ out.op = "resolve"
    /\ \E n \in TraitNodes : G.attr[n].text # None
    /\ out.result = NoneDict

\* A gene query was supplied and the trait was resolved.
GeneQueried ==
    /\ IsResolve
    /\ out.gene_query \notin {None, ""}
    /\ out.result # NoneDict

\* The genes the resolver chooses from: the Gene nodes adjacent to the trait
\* (resolve_trait_and_genes), those joined to it by an influence relation
\* (get_genes_influencing_trait).
Candidates ==
    IF out.op = "resolve" THEN AdjacentGenes(out.result.trait_id)
    ELSE {p[1] : p \in InfluencePairs(out.result.trait_id)}

\* The score of the gene query against the name of gene n.
GeneScore(n) == WRatio(out.gene_query, TextOf(n))

\* C14: a gene query that is not the id of a candidate gene selects at most
\* one gene, always a candidate: one whose name scores highest against the
\* query when that score is at least min_score, and none otherwise.
C14_BestGeneOrNone ==
    (GeneQueried /\ out.gene_query \notin Candidates) =>
        /\ Cardinality(Range(MatchedIds)) <= 1
        /\ Range(MatchedIds) \subseteq Candidates
        /\ \A m \in Range(MatchedIds) :
              /\ GeneScore(m) >= DefaultMinScore
              /\ \A c \in Candidates : GeneScore(c) <= GeneScore(m)
        /\ (\E c \in Candidates : GeneScore(c) >= DefaultMinScore)
              => Range(MatchedIds) # {}

\* C14 witness: two candidates clear min_score with different scores and
\* the higher one is returned.
C14_Witness ==
    /\ GeneQueried
    /\ out.op = "resolve"
    /\ out.gene_query \notin Candidates
    /\ \E c, m \in Candidates :
          /\ GeneScore(c) >= DefaultMinScore
          /\ GeneScore(c) < GeneScore(m)
          /\ Range(MatchedIds) = {m}

\* C14 witness of the other case: candidates exist, none clears min_score.
C14_NoneClears ==
    /\ GeneQueried
    /\ Candidates # {}
    /\ \A c \in Candidates : GeneScore(c) < DefaultMinScore
    /\ out.result.matched_genes = <<>>

\* C15: a gene query that is the id of a candidate gene selects exactly
\* that gene, whatever the fuzzy scores of the other candidates' names.
C15_GeneIdPriority ==
    (GeneQueried /\ out.gene_query \in Candidates) =>
        /\ Range(MatchedIds) = {out.gene_query}
        /\ out.op = "resolve" => Len(out.result.matched_genes) = 1

\* C15 witness: the queried id is a candidate and another candidate's name
\* scores higher against the query, clearing min_score.
C15_Witness ==
    /\ GeneQueried
    /\ out.op = "resolve"
    /\ out.gene_query \in Candidates
    /\ \E c \in Candidates :
          /\ c # out.gene_query
          /\ GeneScore(c) >= DefaultMinScore
          /\ GeneScore(c) > GeneScore(out.gene_query)
    /\ Range(MatchedIds) = {out.gene_query}

(***************************************************************************)
(* text2trait_forntend_app/src/pages/results.py: the callbacks of the      *)
(* results page.  The GWAS page holds the same load_graph_elements around  *)
(* the same two calls.                                                     *)
(***************************************************************************)
\* The empty list [] returned where a dict is otherwise held.
EmptyList == [is_empty_list |-> TRUE]

\* str.lower() on the labels in use.
Lower(label) ==
    CASE label = "Trait" -> "trait"
      [] label = "Trait / Phenotype" -> "trait / phenotype"
      [] label = "Gene" -> "gene"
      [] label = "Protein" -> "protein"
      [] OTHER -> label

\* The url search strings: none, or ?trait=..&gene=.. with either parameter
\* possibly absent (None) or blank.
Searches ==
    {NoneDict} \cup {[trait |-> t, gene |-> g] : t \in TraitQueries \cup {None, ""},
                                            g \in GeneQueries}

\* parse_qs(search[1:]).get(name, [None])[0]: a blank value is dropped by
\* parse_qs, so the parameter reads as None.
Param(value) == IF value = "" THEN None ELSE value

\* build_cytoscape_elements(subgraph, RELATION_COLORS): Raised when
\* node["label"].lower() is called on None, else the element list.
build_cytoscape_elements(subgraph) ==
    IF \E i \in 1..Len(subgraph.nodes) : subgraph.nodes[i].label = None THEN Raised
    ELSE [raised |-> FALSE,
          elements |->
             [i \in 1..Len(subgraph.nodes) |->
                 [kind |-> "node", id |-> subgraph.nodes[i].id,
                  label |-> subgraph.nodes[i].text,
                  node_type |-> Lower(subgraph.nodes[i].label)]]
             \o [i \in 1..Len(subgraph.edges) |->
                 [kind |-> "edge", source |-> subgraph.edges[i].source,
                  target |-> subgraph.edges[i].target,
                  relation_type |-> subgraph.edges[i].type]]]

\* The type given to a displayed node by load_graph_elements.
DisplayType(node_data) ==
    LET label == Get(node_data, "label", "unknown")
    IN  IF is_gene_node(node_data) THEN "gene"
        ELSE IF Lower(label) = "protein" THEN "protein"
        ELSE IF is_trait_node(node_data) THEN "trait"
        ELSE "other"

\* The all_displayed_nodes list of load_graph_elements.
all_displayed_nodes(g, subgraph) ==
    [i \in 1..Len(subgraph.nodes) |->
        [id |-> subgraph.nodes[i].id,
         name |-> get_node_name(g, subgraph.nodes[i].id),
         type |-> DisplayType(g.attr[subgraph.nodes[i].id])]]

\* Mutant: the except clause is missing, the exception leaves the callback.
load_graph_elements_NoExcept(g, search, nbrs) ==
    LET neutral(path) ==
            [store |-> EmptyList, elements |-> <<>>, loaded |-> TRUE, path |-> path]
        built(result, subgraph, b) ==
            IF b.raised THEN [store |-> Raised, elements |-> Raised, loaded |-> FALSE, path |-> "raised"]
            ELSE [store |-> [elements |-> b.elements,
                             matched_genes |-> result.matched_genes,
                             all_displayed_nodes |-> all_displayed_nodes(g, subgraph),
                             trait_id |-> result.trait_id,
                             trait_name |-> result.trait_name],
                  elements |-> b.elements, loaded |-> TRUE, path |-> "ok"]
        expanded(result, subgraph) ==
            IF subgraph = Raised THEN [store |-> Raised, elements |-> Raised, loaded |-> FALSE, path |-> "raised"]
            ELSE built(result, subgraph, build_cytoscape_elements(subgraph))
        resolved(result) ==
            IF result = NoneDict THEN neutral("not_found")
            ELSE expanded(result,
                          get_connected_subgraph(g,
                              <<result.trait_id>>
                              \o [i \in 1..Len(result.matched_genes) |->
                                     result.matched_genes[i].gene_id]))
    IN  IF search = NoneDict THEN neutral("no_search")
        ELSE IF Param(search.trait) = None THEN neutral("no_trait")
        ELSE resolved(resolve_trait_and_genes(g, Param(search.trait), Param(search.gene),
                                              DefaultMinScore, nbrs))

\* load_graph_elements(search): what the callback returns (store, elements,
\* graph-loaded flag; the stylesheet is a constant) and the path it took.
\* nbrs fixes the iteration order of the neighbour set of the resolver.
load_graph_elements(g, search, nbrs) ==
    LET neutral(path) ==
            [store |-> EmptyList, elements |-> <<>>, loaded |-> TRUE, path |-> path]
        built(result, subgraph, b) ==
            IF b.raised THEN neutral("raised")
            ELSE [store |-> [elements |-> b.elements,
                             matched_genes |-> result.matched_genes,
                             all_displayed_nodes |-> all_displayed_nodes(g, subgraph),
                             trait_id |-> result.trait_id,
                             trait_name |-> result.trait_name],
                  elements |-> b.elements, loaded |-> TRUE, path |-> "ok"]
        expanded(result, subgraph) ==
            IF subgraph = Raised THEN neutral("raised")
            ELSE built(result, subgraph, build_cytoscape_elements(subgraph))
        resolved(result) ==
            IF result = NoneDict THEN neutral("not_found")
            ELSE expanded(result,
                          get_connected_subgraph(g,
                              <<result.trait_id>>
                              \o [i \in 1..Len(result.matched_genes) |->
                                     result.matched_genes[i].gene_id]))
    IN  IF search = NoneDict THEN neutral("no_search")
        ELSE IF Param(search.trait) = None THEN neutral("no_trait")
        ELSE resolved(resolve_trait_and_genes(g, Param(search.trait), Param(search.gene),
                                              DefaultMinScore, nbrs))

LoadGraphElements ==
    /\ out = Idle
    /\ \E search \in Searches :
         LET tq == IF search = NoneDict THEN None ELSE Param(search.trait)
             tid == IF tq = None THEN None ELSE ResolveTraitId(G, tq, DefaultMinScore)
         IN  \E nbrs \in (IF tid = None THEN {<<>>} ELSE Perms(Neighbours(G, tid))) :
                out' = [op |-> "load_graph_elements", search |-> search,
                        returned |-> load_graph_elements(G, search, nbrs)]
    /\ UNCHANGED <<nodes_in, edges_in, G, cache, disk, procs, page, files>>

\* Mutant: the (id, type) test is missing, every displayed gene or protein
\* is appended.
AddDisplayed_NoDedup(nodes_to_fetch, displayed) ==
    nodes_to_fetch
    \o [i \in 1..Len(SelectSeq(displayed, LAMBDA n : n.type \in {"gene", "protein"})) |->
           LET n == SelectSeq(displayed, LAMBDA d : d.type \in {"gene", "protein"})[i]
           IN  [name |-> n.name, type |-> n.type, id |-> n.id]]

\* The loop of fetch_ncbi_data over all_displayed_nodes: an entry whose
\* (id, type) is already listed is skipped, a gene or protein is appended.
RECURSIVE AddDisplayed(_, _)
AddDisplayed(nodes_to_fetch, displayed) ==
    IF displayed = <<>> THEN nodes_to_fetch
    ELSE LET n == Head(displayed)
         IN  IF \E i \in 1..Len(nodes_to_fetch) :
                    nodes_to_fetch[i].id = n.id /\ nodes_to_fetch[i].type = n.type
             THEN AddDisplayed(nodes_to_fetch, Tail(displayed))
             ELSE IF n.type \in {"gene", "protein"}
             THEN AddDisplayed(Append(nodes_to_fetch,
                                      [name |-> n.name, type |-> n.type, id |-> n.id]),
                               Tail(displayed))
             ELSE AddDisplayed(nodes_to_fetch, Tail(displayed))

\* The nodes_to_fetch list of fetch_ncbi_data(data).
NodesToFetch(data) ==
    IF data = EmptyList THEN <<>>
    ELSE AddDisplayed([i \in 1..Len(data.matched_genes) |->
                          [name |-> data.matched_genes[i].gene_name,
                           type |-> "gene",
                           id |-> data.matched_genes[i].gene_id]],
                      data.all_displayed_nodes)

\* {info["_key"]: info for info in ncbi_results}: a later record replaces an
\* earlier one of the same key.
NcbiMap(results) ==
    [k \in {results[i].key : i \in 1..Len(results)} |->
        LET last == CHOOSE i \in 1..Len(results) :
                        /\ results[i].key = k
                        /\ \A j \in 1..Len(results) : results[j].key = k => j <= i
        IN  results[last]]

\* fetch_ncbi_data(data): fired by the store that load_graph_elements wrote.
FetchNcbiData ==
    /\ out # Idle
    /\ out.op = "load_graph_elements"
    /\ LET fetched(nodes) ==
             IF nodes = <<>>
             THEN /\ out' = [op |-> "fetch_ncbi_data", data |-> out.returned.store,
                             nodes_to_fetch |-> nodes, ncbi_map |-> <<>>]
                  /\ UNCHANGED <<cache, disk>>
             ELSE \E svcs \in [1..Len(nodes) -> Service] :
                    LET done(r) ==
                            /\ out' = [op |-> "fetch_ncbi_data", data |-> out.returned.store,
                                       nodes_to_fetch |-> nodes,
                                       ncbi_map |-> NcbiMap(r.results)]
                            /\ cache' = r.cache
                            /\ disk' = r.disk
                    IN  done(fetch_multiple_nodes_info(nodes, svcs, cache, disk))
       IN  fetched(NodesToFetch(out.returned.store))
    /\ UNCHANGED <<nodes_in, edges_in, G, procs, page, files>>

\* The page has rendered; the next query follows.
RespondPage ==
    /\ out # Idle
    /\ out.op = "fetch_ncbi_data"
    /\ out' = Idle
    /\ UNCHANGED <<nodes_in, edges_in, G, cache, disk, procs, page, files>>

NextPage == LoadGraphElements \/ FetchNcbiData \/ RespondPage

SpecPage == Init /\ [][NextPage]_vars

(***************************************************************************)
(* Properties of the results page (specification SpecPage).                *)
(***************************************************************************)
IsLoad == out.op = "load_graph_elements"

\* The search string carries no trait.
NoTraitParam == out.search = NoneDict \/ out.search.trait \in {None, ""}

\* The trait parameter is no trait id and matches no trait text.
TraitParamUnmatched ==
    /\ ~NoTraitParam
    /\ ~(HasNode(G, out.search.trait) /\ out.search.trait \in TraitNodes)
    /\ \A n \in TraitNodes : WRatio(out.search.trait, TextOf(n)) < DefaultMinScore

\* C13: load_graph_elements always returns, with the graph marked loaded;
\* when the trait parameter is missing, when the resolution finds nothing
\* and when a step throws, it returns the empty store and no elements.
C13_CallbackNeverRaises ==
    IsLoad =>
        /\ out.returned.loaded
        /\ (NoTraitParam \/ TraitParamUnmatched \/ out.returned.path = "raised")
              => (out.returned.store = EmptyList /\ out.returned.elements = <<>>)
        /\ out.returned.path = "ok" => out.returned.store # EmptyList

\* C13 witness: a node of the expanded subgraph has no label, element
\* building throws and the callback returns the neutral result.
C13_Witness ==
    /\ IsLoad
    /\ ~NoTraitParam
    /\ ~TraitParamUnmatched
    /\ out.returned.path = "raised"
    /\ out.returned.store = EmptyList
    /\ out.returned.loaded

(***************************************************************************)
(* The trait resolver called on its own, with any limit and min_score      *)
(* (specification SpecTraits).                                             *)
(***************************************************************************)
Limits == {1, 2, 5}

MinScores == {0, 70, 80}

\* find_best_traits(G, trait_query, limit, min_score) of text2trait
FindBestTraits ==
    /\ out = Idle
    /\ \E tq \in TraitQueries, limit \in Limits, min_score \in MinScores :
         out' = [op |-> "find_best_traits", trait_query |-> tq, limit |-> limit,
                 min_score |-> min_score,
                 result |-> find_best_traits(G, tq, limit, min_score)]
    /\ UNCHANGED <<nodes_in, edges_in, G, cache, disk, procs, page, files>>

\* find_best_traits(G, trait_query, limit, min_score) of the GWAS app
FindBestTraitsGwas ==
    /\ out = Idle
    /\ \E tq \in TraitQueries, limit \in Limits, min_score \in MinScores :
         out' = [op |-> "gwas_find_best_traits", trait_query |-> tq, limit |-> limit,
                 min_score |-> min_score,
                 result |-> gwas_find_best_traits(G, tq, limit, min_score)]
    /\ UNCHANGED <<nodes_in, edges_in, G, cache, disk, procs, page, files>>

NextTraits == FindBestTraits \/ FindBestTraitsGwas \/ Respond

SpecTraits == Init /\ [][NextTraits]_vars

\* The resolver of the last call, called again with min_score m.
Again(m) ==
    IF out.op = "find_best_traits"
    THEN find_best_traits(G, out.trait_query, out.limit, m)
    ELSE gwas_find_best_traits(G, out.trait_query, out.limit, m)

\* C16: for the same graph, query and limit, a higher min_score never
\* returns more candidates.
C16_MinScoreMonotone ==
    out.op \in {"find_best_traits", "gwas_find_best_traits"} =>
        \A m \in MinScores :
            m >= out.min_score => Len(Again(m)) <= Len(out.result)

\* C16 witness: a call that returns two candidates, of which a higher
\* min_score keeps one.
C16_Witness ==
    /\ out.op = "find_best_traits"
    /\ Len(out.result) = 2
    /\ \E m \in MinScores : m > out.min_score /\ Len(Again(m)) = 1

(***************************************************************************)
(* Properties of resolution and expansion, one hop (specification Spec).   *)
(***************************************************************************)
ExistingFocus ==
    /\ out.op = "expand"
    /\ \A n \in Range(out.focus_nodes) : n \in Range(G.nodes)

OneHop(F) == F \cup {m \in Range(G.nodes) : \E n \in F : EdgeFrom(n, m) \/ EdgeFrom(m, n)}

\* n has no successor and no predecessor (a self-loop makes n its own neighbour).
NoNeighbours(n) == \A i \in 1..Len(G.edges) : n \notin {G.edges[i][1], G.edges[i][2]}

ExpandedIds == [i \in 1..Len(out.result.nodes) |-> out.result.nodes[i].id]

\* C17: the expansion of a focus list of existing nodes raises no error and
\* returns each focus node and each direct successor or predecessor of a
\* focus node once, and no other node; a focus node without edges yields
\* that node alone and no edge.
C17_OneHopOnly ==
    ExistingFocus =>
        /\ out.result # Raised
        /\ Range(ExpandedIds) = OneHop(Range(out.focus_nodes))
        /\ EachOnce(ExpandedIds)
        /\ (Len(out.focus_nodes) = 1 /\ NoNeighbours(FocusNode)) =>
              /\ ExpandedIds = <<FocusNode>>
              /\ out.result.edges = <<>>

\* C17 witness: the graph holds a node two hops away from the focus node,
\* which the expansion leaves out.
C17_Witness ==
    /\ ExistingFocus
    /\ Len(out.focus_nodes) = 1
    /\ \E m \in Range(G.nodes) :
          /\ m \notin Near(FocusNode)
          /\ \E n \in Near(FocusNode) : EdgeFrom(n, m) \/ EdgeFrom(m, n)
          /\ m \notin Range(ExpandedIds)

\* C17, second case reached: a focus node without edges in a graph that has
\* edges, expanded to itself alone.
C17_IsolatedReached ==
    /\ ExistingFocus
    /\ Len(out.focus_nodes) = 1
    /\ NoNeighbours(FocusNode)
    /\ G.edges # <<>>
    /\ ExpandedIds = <<FocusNode>>

(***************************************************************************)
(* Properties of the metadata request of the page (specification SpecPage).*)
(***************************************************************************)
\* fetch_ncbi_data has called fetch_multiple_nodes_info(nodes_to_fetch).
BatchRequested ==
    /\ out # Idle
    /\ out.op = "fetch_ncbi_data"
    /\ out.nodes_to_fetch # <<>>

Requested == [i \in 1..Len(out.nodes_to_fetch) |->
                 <<out.nodes_to_fetch[i].type, out.nodes_to_fetch[i].id>>]

\* The gene and protein nodes among the elements drawn by the page.
DisplayedEntities ==
    {<<out.data.elements[i].node_type, out.data.elements[i].id>> :
        i \in {k \in 1..Len(out.data.elements) :
                  /\ out.data.elements[k].kind = "node"
                  /\ out.data.elements[k].node_type \in {"gene", "protein"}}}

\* C18: the list handed to fetch_multiple_nodes_info holds no (type, id)
\* twice, holds only genes and proteins, and holds every gene and protein
\* node of the displayed subgraph.
C18_FetchListDeduplicated ==
    BatchRequested =>
        /\ EachOnce(Requested)
        /\ \A i \in 1..Len(Requested) : Requested[i][1] \in {"gene", "protein"}
        /\ DisplayedEntities \subseteq Range(Requested)

\* C18 witness: a matched gene that is displayed as well, and a displayed
\* protein, requested together.
C18_Witness ==
    /\ BatchRequested
    /\ \E i \in 1..Len(out.data.matched_genes) :
          <<"gene", out.data.matched_genes[i].gene_id>> \in DisplayedEntities
    /\ \E e \in DisplayedEntities : e[1] = "protein"
    /\ Len(Requested) = 2

(***************************************************************************)
(* load_graph called on the two files, either of which may be absent and   *)
(* whose records may lack any field (specification SpecLoad).              *)
(***************************************************************************)
MaxRecs == 2

\* A path at which no file exists.
NoFile == [exists |-> FALSE, recs |-> <<>>]

LoadNodeRecs ==
    { [id |-> "n001", label |-> "Trait", text |-> "seed"],
      [id |-> "n002", label |-> "Gene", text |-> "seem"],
      [id |-> Missing, label |-> "Gene", text |-> "seem"],
      [id |-> "n002", label |-> Missing, text |-> "seem"],
      [id |-> "n002", label |-> "Gene", text |-> Missing] }

LoadEdgeRecs ==
    { [source |-> "n002", target |-> "n001", type |-> "REGULATES"],
      [source |-> Missing, target |-> "n001", type |-> "REGULATES"],
      [source |-> "n002", target |-> Missing, type |-> "REGULATES"],
      [source |-> "n002", target |-> "n001", type |-> Missing] }

FilesOf(recs) ==
    {NoFile} \cup {[exists |-> TRUE, recs |-> f] :
                      f \in UNION {[1..n -> recs] : n \in 0..MaxRecs}}

\* load_graph(nodes_path, edges_path) from the paths on: FileNotFoundError
\* for an absent file, KeyError from node["id"], edge["source"] or
\* edge["target"], else the graph.
load_graph_files(nodes_file, edges_file) ==
    IF ~nodes_file.exists \/ ~edges_file.exists THEN Raised
    ELSE IF \E i \in 1..Len(nodes_file.recs) : nodes_file.recs[i].id = Missing THEN Raised
    ELSE IF \E i \in 1..Len(edges_file.recs) :
                Missing \in {edges_file.recs[i].source, edges_file.recs[i].target}
    THEN Raised
    ELSE [raised |-> FALSE, graph |-> load_graph(nodes_file.recs, edges_file.recs)]

InitLoad ==
    /\ nodes_in = <<>>
    /\ edges_in = <<>>
    /\ G = EmptyGraph
    /\ out = Idle
    /\ cache = <<>>
    /\ disk = <<>>
    /\ procs = <<>>
    /\ page = Layout
    /\ files = <<>>

\* G, raw = load_graph(NODES_PATH, EDGES_PATH)
LoadGraph ==
    /\ out = Idle
    /\ \E nodes_file \in FilesOf(LoadNodeRecs), edges_file \in FilesOf(LoadEdgeRecs) :
         LET loaded(r) ==
               /\ out' = [op |-> "load_graph", nodes_file |-> nodes_file,
                          edges_file |-> edges_file, result |-> r]
               /\ G' = IF r.raised THEN G ELSE r.graph
         IN  /\ loaded(load_graph_files(nodes_file, edges_file))
             /\ nodes_in' = nodes_file.recs
             /\ edges_in' = edges_file.recs
    /\ UNCHANGED <<cache, disk, procs, page, files>>

\* The process ends; it is started again on other files.
Restart ==
    /\ out # Idle
    /\ out' = Idle
    /\ nodes_in' = <<>>
    /\ edges_in' = <<>>
    /\ G' = EmptyGraph
    /\ UNCHANGED <<cache, disk, procs, page, files>>

NextLoad == LoadGraph \/ Restart

SpecLoad == InitLoad /\ [][NextLoad]_vars

\* A file of the last load_graph call is absent, or one of its records
\* lacks a required field.
IncompleteInput ==
    \/ ~out.nodes_file.exists
    \/ ~out.edges_file.exists
    \/ \E i \in 1..Len(out.nodes_file.recs) :
          Missing \in {out.nodes_file.recs[i].id, out.nodes_file.recs[i].label,
                       out.nodes_file.recs[i].text}
    \/ \E i \in 1..Len(out.edges_file.recs) :
          Missing \in {out.edges_file.recs[i].source, out.edges_file.recs[i].target,
                       out.edges_file.recs[i].type}

\* C19 as stated: load_graph raises, and returns no graph, whenever a file
\* is absent or a node record lacks id, label or text or an edge record
\* lacks source, target or type.
C19_IncompleteInputRejected ==
    (out.op = "load_graph" /\ IncompleteInput) => out.result.raised

\* The part of C19 that the code keeps: an absent file, a node record
\* without id and an edge record without source or target raise.
C19_MissingKeyRaises ==
    ( /\ out.op = "load_graph"
      /\ \/ ~out.nodes_file.exists
         \/ ~out.edges_file.exists
         \/ \E i \in 1..Len(out.nodes_file.recs) : out.nodes_file.recs[i].id = Missing
         \/ \E i \in 1..Len(out.edges_file.recs) :
               Missing \in {out.edges_file.recs[i].source, out.edges_file.recs[i].target} )
    => out.result.raised

(***************************************************************************)
(* Display names of nodes whose record has no text (specification Spec).   *)
(***************************************************************************)
\* The ids whose record in the nodes file has no text field.
Textless == {nodes_in[i].id : i \in {k \in 1..Len(nodes_in) : nodes_in[k].text = Missing}}

\* The expansion names a text-less node by its id.
ExpansionNamesById ==
    (out.op = "expand" /\ out.result # Raised) =>
        \A i \in 1..Len(out.result.nodes) :
            out.result.nodes[i].id \in Textless =>
                out.result.nodes[i].text = out.result.nodes[i].id

\* Either resolver names a text-less trait or gene by its id.
ResolutionNamesById ==
    (IsResolve /\ out.result # NoneDict) =>
        /\ (out.result.trait_id \in Textless) =>
              (out.result.trait_name = out.result.trait_id)
        /\ \A i \in 1..Len(out.result.matched_genes) :
              out.result.matched_genes[i].gene_id \in Textless =>
                  out.result.matched_genes[i].gene_name
                      = out.result.matched_genes[i].gene_id

\* Fuzzy matching compares the query with the id of a text-less trait: the
\* id as query matches the node.
MatchedById ==
    \A n \in Textless :
        is_trait_node(G.attr[n]) =>
            \E k \in 1..Len(find_best_traits(G, n, DefaultLimit, DefaultMinScore)) :
                find_best_traits(G, n, DefaultLimit, DefaultMinScore)[k].node_id = n

\* C20 as stated: a node whose record has no text field is named by its id
\* in the result of the resolution, in the expansion, and as the choice
\* that fuzzy matching compares the query with.
C20_NameDefaultsToId ==
    /\ ExpansionNamesById
    /\ ResolutionNamesById
    /\ out.op = "expand" => MatchedById

(***************************************************************************)
(* Nodes without a recognised label on the page (specification SpecPage).  *)
(***************************************************************************)
\* The label of n is absent or names no category the page knows.
Unrecognised(n) == G.attr[n].label \notin TRAIT_LABELS \cup {"Gene", "Protein"}

\* The trait the search string of the last load resolves to, or None.
SearchedTrait ==
    IF NoTraitParam THEN None
    ELSE ResolveTraitId(G, out.search.trait, DefaultMinScore)

\* The ids of the node elements the page draws.
DrawnIds ==
    {out.returned.elements[i].id :
        i \in {k \in 1..Len(out.returned.elements) : out.returned.elements[k].kind = "node"}}

\* n is listed among the displayed nodes with type other.
DisplayedAsOther(n) ==
    \E i \in 1..Len(out.returned.store.all_displayed_nodes) :
        out.returned.store.all_displayed_nodes[i]
            = [id |-> n, name |-> get_node_name(G, n), type |-> "other"]

\* C21 as stated: when a node next to the resolved trait has no label or an
\* unrecognised one, the page still draws the whole one-hop neighbourhood
\* and lists that node as other.
C21_UnknownLabelKept ==
    (IsLoad /\ SearchedTrait # None
            /\ \E n \in Near(SearchedTrait) : Unrecognised(n)) =>
        /\ out.returned.path = "ok"
        /\ Near(SearchedTrait) \subseteq DrawnIds
        /\ \A n \in Near(SearchedTrait) : Unrecognised(n) => DisplayedAsOther(n)

\* The part of C21 that the code keeps: a neighbour that an edge created
\* without a record is drawn and listed as other.
C21_RecordlessNodeKept ==
    (IsLoad /\ SearchedTrait # None
            /\ \A n \in Range(G.nodes) : G.attr[n].label # None) =>
        /\ out.returned.path = "ok"
        /\ Near(SearchedTrait) \subseteq DrawnIds
        /\ \A n \in Near(SearchedTrait) : Unrecognised(n) => DisplayedAsOther(n)

(***************************************************************************)
(* Gene normalisation: the GenomicInfo string of _normalize_gene_doc and   *)
(* _normalize_docsummary (specification SpecGene).  A string is the        *)
(* sequence of its pieces; "" is the empty sequence.                       *)
(***************************************************************************)
MaxSegs == 2

\* str.join: the parts with sep between them.
RECURSIVE Join(_, _)
Join(sep, parts) ==
    IF parts = <<>> THEN <<>>
    ELSE IF Len(parts) = 1 THEN parts[1]
    ELSE parts[1] \o sep \o Join(sep, Tail(parts))

\* The entries a GenomicInfo list may hold; an absent key reads as "".
Segments ==
    [ChrAccVer : {<<>>, <<"NC_1">>, <<"NC_2">>},
     ChrStart : {<<>>, <<"100">>},
     ChrStop : {<<>>, <<"200">>},
     ChrStrand : {<<>>, <<"plus">>}]

GenomicLists == UNION {[1..n -> Segments] : n \in 0..MaxSegs}

\* gi_str of one entry: loc_parts holds the accession, "start-stop" and
\* "strand=N", each if present; the first part is joined with ":" on its
\* own and the others follow after spaces.
gi_str(g) ==
    LET loc_parts ==
            (IF g.ChrAccVer # <<>> THEN <<g.ChrAccVer>> ELSE <<>>)
            \o (IF g.ChrStart # <<>> /\ g.ChrStop # <<>>
                THEN <<g.ChrStart \o <<"-">> \o g.ChrStop>> ELSE <<>>)
            \o (IF g.ChrStrand # <<>> THEN <<<<"strand=">> \o g.ChrStrand>> ELSE <<>>)
    IN  IF loc_parts = <<>> THEN <<>>
        ELSE Join(<<":">>, <<loc_parts[1]>>)
             \o (IF Len(loc_parts) > 1
                 THEN <<" ">> \o Join(<<" ">>, Tail(loc_parts)) ELSE <<>>)

\* out["GenomicInfo"] of _normalize_gene_doc(ds).
normalize_gene_doc(genomic) ==
    Join(<<"; ">>, SelectSeq([i \in 1..Len(genomic) |-> gi_str(genomic[i])],
                            LAMBDA str : str # <<>>))

\* out["GenomicInfo"] of _normalize_docsummary(ds) of the GWAS app.
normalize_docsummary(genomic) ==
    Join(<<"; ">>, SelectSeq([i \in 1..Len(genomic) |-> gi_str(genomic[i])],
                            LAMBDA str : str # <<>>))

NormalizeGeneDoc ==
    /\ out = Idle
    /\ \E genomic \in GenomicLists :
         out' = [op |-> "normalize_gene_doc", genomic |-> genomic,
                 GenomicInfo |-> normalize_gene_doc(genomic)]
    /\ UNCHANGED <<nodes_in, edges_in, G, cache, disk, procs, page, files>>

NormalizeDocsummary ==
    /\ out = Idle
    /\ \E genomic \in GenomicLists :
         out' = [op |-> "normalize_docsummary", genomic |-> genomic,
                 GenomicInfo |-> normalize_docsummary(genomic)]
    /\ UNCHANGED <<nodes_in, edges_in, G, cache, disk, procs, page, files>>

NextGene == NormalizeGeneDoc \/ NormalizeDocsummary \/ Respond

SpecGene == InitLoad /\ [][NextGene]_vars

IsNormalize == out.op \in {"normalize_gene_doc", "normalize_docsummary"}

\* The entry has an accession, a start, a stop and a strand.
FullSegment(g) ==
    g.ChrAccVer # <<>> /\ g.ChrStart # <<>> /\ g.ChrStop # <<>> /\ g.ChrStrand # <<>>

\* The entry has none of the four.
BlankSegment(g) ==
    g.ChrAccVer = <<>> /\ g.ChrStart = <<>> /\ g.ChrStop = <<>> /\ g.ChrStrand = <<>>

\* "accession:start-stop strand=N"
WithColon(g) ==
    g.ChrAccVer \o <<":">> \o g.ChrStart \o <<"-">> \o g.ChrStop
    \o <<" ", "strand=">> \o g.ChrStrand

\* "accession start-stop strand=N"
WithSpace(g) ==
    g.ChrAccVer \o <<" ">> \o g.ChrStart \o <<"-">> \o g.ChrStop
    \o <<" ", "strand=">> \o g.ChrStrand

FullSegments == SelectSeq(out.genomic, FullSegment)

\* C22 as stated: a list of entries that are complete or blank is rendered
\* as the "accession:start-stop strand=N" strings of the complete entries,
\* in input order, joined with "; ".
C22_ColonBeforeRange ==
    (IsNormalize /\ \A i \in 1..Len(out.genomic) :
                        FullSegment(out.genomic[i]) \/ BlankSegment(out.genomic[i])) =>
        out.GenomicInfo
            = Join(<<"; ">>, [i \in 1..Len(FullSegments) |-> WithColon(FullSegments[i])])

\* What the code renders instead: a space between accession and range.
C22_SpaceBeforeRange ==
    (IsNormalize /\ \A i \in 1..Len(out.genomic) :
                        FullSegment(out.genomic[i]) \/ BlankSegment(out.genomic[i])) =>
        out.GenomicInfo
            = Join(<<"; ">>, [i \in 1..Len(FullSegments) |-> WithSpace(FullSegments[i])])

(***************************************************************************)
(* The graph while queries are served (specification Spec).                *)
(***************************************************************************)
\* C23: after any sequence of resolutions and expansions the graph is the
\* graph that load_graph built from the two files.
C23_GraphAsLoaded == G = load_graph(nodes_in, edges_in)

\* C23 witness: an expansion has just returned edges, each made from an
\* attribute dict of the graph.
C23_Witness ==
    /\ out.op = "expand"
    /\ out.result # Raised
    /\ Len(out.result.edges) >= 2
    /\ G = load_graph(nodes_in, edges_in)

(***************************************************************************)
(* The loading modal of the results page (specification SpecModal).  A     *)
(* callback runs when one of its inputs has been written; update_modal     *)
(* reads both stores when it runs.                                         *)
(***************************************************************************)
MaxIntervals == 1

\* Mutant: the modal closes as soon as either flag is set.
update_modal_Either(graph_loaded, timer_done) == ~(graph_loaded \/ timer_done)

\* update_modal(graph_loaded, timer_done)
update_modal(graph_loaded, timer_done) == ~(graph_loaded /\ timer_done)

\* finish_timer(_)
finish_timer == TRUE

\* dcc.Location writes url.search (on mount and on every navigation within
\* the page); load_graph_elements runs and writes graph-loaded.
UrlSearch ==
    /\ \E search \in Searches :
         LET tq == IF search = NoneDict THEN None ELSE Param(search.trait)
             tid == IF tq = None THEN None ELSE ResolveTraitId(G, tq, DefaultMinScore)
         IN  \E nbrs \in (IF tid = None THEN {<<>>} ELSE Perms(Neighbours(G, tid))) :
                page' = [page EXCEPT
                            !.graph_loaded = load_graph_elements(G, search, nbrs).loaded,
                            !.modal_due = TRUE]
    /\ UNCHANGED <<nodes_in, edges_in, G, out, cache, disk, procs, files>>

\* The loading-timer fires (at most max_intervals times); finish_timer runs
\* and writes timer-done.
TimerFires ==
    /\ page.n_intervals < MaxIntervals
    /\ page' = [page EXCEPT !.n_intervals = @ + 1,
                            !.timer_done = finish_timer,
                            !.modal_due = TRUE]
    /\ UNCHANGED <<nodes_in, edges_in, G, out, cache, disk, procs, files>>

\* update_modal runs and writes loading-modal.is_open.
UpdateModal ==
    /\ page.modal_due
    /\ page' = [page EXCEPT !.is_open = update_modal(page.graph_loaded, page.timer_done),
                            !.modal_due = FALSE]
    /\ UNCHANGED <<nodes_in, edges_in, G, out, cache, disk, procs, files>>

NextModal == UrlSearch \/ TimerFires \/ UpdateModal

SpecModal == Init /\ [][NextModal]_vars

\* C24: whenever update_modal is not due, the modal is open exactly when
\* not (graph_loaded and timer_done); no step resets a flag that is set, and
\* no step opens the modal once it is closed.
C24_ModalUntilBoth ==
    /\ [](~page.modal_due => (page.is_open <=> ~(page.graph_loaded /\ page.timer_done)))
    /\ [][ /\ page.graph_loaded => page'.graph_loaded
           /\ page.timer_done => page'.timer_done
           /\ ~page.is_open => ~page'.is_open ]_vars

\* C24 witness: the timer has fired and the graph is loaded, and the modal
\* has been closed.
C24_Witness ==
    /\ page.graph_loaded
    /\ page.timer_done
    /\ ~page.modal_due
    /\ ~page.is_open

\* C24, second case reached: one flag is set, update_modal has run, and the
\* modal is still open.
C24_StillOpen ==
    /\ page.graph_loaded
    /\ ~page.timer_done
    /\ ~page.modal_due
    /\ page.is_open

(***************************************************************************)
(* The data-processing pipeline, main.py run on one STEPS_TO_RUN           *)
(* (specification SpecPipeline).  Every step that is entered completes.    *)
(***************************************************************************)
\* The steps in the order of the documented workflow.
Workflow ==
    <<"excel", "filter", "pdf", "llm", "filter_pdf", "merge_llm", "graph", "array">>

GraphSources == {"excel", "llm", "merged"}

NoSource == "<None>"

\* python main.py with some STEPS_TO_RUN and GRAPH_SOURCE in config.py.
RunMain ==
    /\ out = Idle
    /\ \E steps \in SUBSET Range(Workflow), source \in GraphSources :
         out' = [op |-> "main", STEPS_TO_RUN |-> steps, GRAPH_SOURCE |-> source,
                 at |-> 1, processed_source |-> NoSource, ran |-> <<>>]
    /\ UNCHANGED <<nodes_in, edges_in, G, cache, disk, procs, page, files>>

AtStep(k) == out # Idle /\ out.op = "main" /\ out.at = k

\* Step 1: Excel -> master_triplets.jsonl
StepExcel ==
    /\ AtStep(1)
    /\ out' = IF "excel" \in out.STEPS_TO_RUN
              THEN [out EXCEPT !.at = 2, !.ran = Append(@, "excel"),
                               !.processed_source = "excel"]
              ELSE [out EXCEPT !.at = 2]
    /\ UNCHANGED <<nodes_in, edges_in, G, cache, disk, procs, page, files>>

\* Step 2: PDF -> master_pdfs.jsonl
StepPdf ==
    /\ AtStep(2)
    /\ out' = IF "pdf" \in out.STEPS_TO_RUN
              THEN [out EXCEPT !.at = 3, !.ran = Append(@, "pdf"),
                               !.processed_source =
                                   IF @ # "excel" THEN "pdf" ELSE @]
              ELSE [out EXCEPT !.at = 3]
    /\ UNCHANGED <<nodes_in, edges_in, G, cache, disk, procs, page, files>>

\* Step 3: filter Excel triplets
StepFilter ==
    /\ AtStep(3)
    /\ out' = IF "filter" \in out.STEPS_TO_RUN /\ out.processed_source = "excel"
              THEN [out EXCEPT !.at = 4, !.ran = Append(@, "filter")]
              ELSE [out EXCEPT !.at = 4]
    /\ UNCHANGED <<nodes_in, edges_in, G, cache, disk, procs, page, files>>

\* Step 4: LLM enrichment
StepLlm ==
    /\ AtStep(4)
    /\ out' = IF "llm" \in out.STEPS_TO_RUN /\ out.processed_source = "pdf"
              THEN [out EXCEPT !.at = 5, !.ran = Append(@, "llm"),
                               !.processed_source = "llm"]
              ELSE [out EXCEPT !.at = 5]
    /\ UNCHANGED <<nodes_in, edges_in, G, cache, disk, procs, page, files>>

\* Step 5: filter LLM PDF triplets
StepFilterPdf ==
    /\ AtStep(5)
    /\ out' = IF "filter_pdf" \in out.STEPS_TO_RUN /\ out.processed_source = "llm"
              THEN [out EXCEPT !.at = 6, !.ran = Append(@, "filter_pdf")]
              ELSE [out EXCEPT !.at = 6]
    /\ UNCHANGED <<nodes_in, edges_in, G, cache, disk, procs, page, files>>

\* Step 6: merge PDF triplets into filtered Excel triplets
StepMerge ==
    /\ AtStep(6)
    /\ out' = IF "merge_llm" \in out.STEPS_TO_RUN
              THEN [out EXCEPT !.at = 7, !.ran = Append(@, "merge_llm")]
              ELSE [out EXCEPT !.at = 7]
    /\ UNCHANGED <<nodes_in, edges_in, G, cache, disk, procs, page, files>>

\* Step 7: build graph
StepGraph ==
    /\ AtStep(7)
    /\ out' = IF "graph" \in out.STEPS_TO_RUN
              THEN [out EXCEPT !.at = 8, !.ran = Append(@, "graph")]
              ELSE [out EXCEPT !.at = 8]
    /\ UNCHANGED <<nodes_in, edges_in, G, cache, disk, procs, page, files>>

\* Step 8: JSONL -> JSON array; the script ends.
StepArray ==
    /\ AtStep(8)
    /\ out' = IF "array" \in out.STEPS_TO_RUN
              THEN [out EXCEPT !.at = 9, !.ran = Append(@, "array")]
              ELSE [out EXCEPT !.at = 9]
    /\ UNCHANGED <<nodes_in, edges_in, G, cache, disk, procs, page, files>>

\* "Pipeline completed successfully!"
MainEnds ==
    /\ AtStep(9)
    /\ out' = Idle
    /\ UNCHANGED <<nodes_in, edges_in, G, cache, disk, procs, page, files>>

NextPipeline ==
    \/ RunMain \/ StepExcel \/ StepPdf \/ StepFilter \/ StepLlm
    \/ StepFilterPdf \/ StepMerge \/ StepGraph \/ StepArray \/ MainEnds

SpecPipeline == InitLoad /\ [][NextPipeline]_vars

\* Position of a step in the documented workflow.
WorkflowIndex(step) == CHOOSE i \in 1..Len(Workflow) : Workflow[i] = step

\* C25 as stated: when the run ends every step of STEPS_TO_RUN has been
\* executed, and the steps were executed in workflow order.
C25_ListedStepsRun ==
    AtStep(9) =>
        /\ \A step \in out.STEPS_TO_RUN : step \in Range(out.ran)
        /\ \A i, j \in 1..Len(out.ran) :
              i < j => WorkflowIndex(out.ran[i]) < WorkflowIndex(out.ran[j])

\* C25, first part alone: every listed step has been executed.
C25_EveryListedStep ==
    AtStep(9) => \A step \in out.STEPS_TO_RUN : step \in Range(out.ran)

\* C25, second part alone: the executed steps are in workflow order.
C25_InWorkflowOrder ==
    AtStep(9) =>
        \A i, j \in 1..Len(out.ran) :
            i < j => WorkflowIndex(out.ran[i]) < WorkflowIndex(out.ran[j])

\* What the code keeps: the steps other than filter, llm and filter_pdf run
\* whenever they are listed, and no unlisted step runs.
C25_UnconditionalSteps ==
    AtStep(9) =>
        /\ \A step \in out.STEPS_TO_RUN \ {"filter", "llm", "filter_pdf"} :
              step \in Range(out.ran)
        /\ Range(out.ran) \subseteq out.STEPS_TO_RUN

(***************************************************************************)
(* Step 6 of the pipeline run again and again on the same two files        *)
(* (specification SpecMerge).  A JSON Lines file is the sequence of its    *)
(* entries.                                                                *)
(***************************************************************************)
MaxLines == 2

MaxRuns == 2

Triplets == {"t1", "t2"}

JsonlFiles == UNION {[1..n -> Triplets] : n \in 0..MaxLines}

\* read_jsonl(file_path)
read_jsonl(fs, file_path) == fs[file_path]

\* append_jsonl(file_path, data): the files after the call.
append_jsonl(fs, file_path, data) == [fs EXCEPT ![file_path] = @ \o data]

\* merge_jsonl_files(target_file, source_file): the files after the call.
merge_jsonl_files(fs, target_file, source_file) ==
    append_jsonl(fs, target_file, read_jsonl(fs, source_file))

InitMerge ==
    /\ nodes_in = <<>>
    /\ edges_in = <<>>
    /\ G = EmptyGraph
    /\ out = [op |-> "merge_llm", runs |-> 0, before |-> <<>>, once |-> <<>>]
    /\ cache = <<>>
    /\ disk = <<>>
    /\ procs = <<>>
    /\ page = Layout
    /\ files \in [{"master_triplets_filtered", "master_pdfs_with_triplets_filtered"}
                      -> JsonlFiles]

\* main.py with "merge_llm" in STEPS_TO_RUN, the source file as it was.
MergeLlm ==
    /\ out.runs < MaxRuns
    /\ files' = merge_jsonl_files(files, "master_triplets_filtered",
                                  "master_pdfs_with_triplets_filtered")
    /\ out' = [out EXCEPT !.runs = @ + 1,
                          !.before = files["master_triplets_filtered"],
                          !.once = IF out.runs = 0
                                   THEN files'["master_triplets_filtered"] ELSE @]
    /\ UNCHANGED <<nodes_in, edges_in, G, cache, disk, procs, page>>

NextMerge == MergeLlm

SpecMerge == InitMerge /\ [][NextMerge]_vars

\* The entries that the last merge added to the target.
Appended ==
    SubSeq(files["master_triplets_filtered"], Len(out.before) + 1,
           Len(files["master_triplets_filtered"]))

\* C26 as stated: a merge appends only entries that the target did not
\* hold, and after a second merge of the same source the target is what it
\* was after the first.
C26_MergeIdempotent ==
    /\ out.runs >= 1 => \A i \in 1..Len(Appended) : Appended[i] \notin Range(out.before)
    /\ out.runs = 2 => files["master_triplets_filtered"] = out.once

\* What the code does: every merge appends the whole source file.
C26_AppendsWholeSource ==
    out.runs >= 1 =>
        /\ Appended = files["master_pdfs_with_triplets_filtered"]
        /\ SubSeq(files["master_triplets_filtered"], 1, Len(out.before)) = out.before

(***************************************************************************)
(* graph_builder.py: build_graph_from_dataset (specification SpecBuild).   *)
(* The dataset is given as the pairs of all its items, in file order.      *)
(***************************************************************************)
MaxPairs == 2

\* The (span, attr) entities and the relations a pair may name.
Spans == { [span |-> "seed", attr |-> "Trait"],
           [span |-> "seed", attr |-> "Gene"],
           [span |-> "seem", attr |-> "Gene"] }

Rels == {"regulates", "REGULATES", "BINDS"}

\* str.upper() on the relations in use.
Upper(rel) == IF rel = "regulates" THEN "REGULATES" ELSE rel

Pairs == [s : Spans, e : Spans, rel : Rels]

Datasets == UNION {[1..n -> Pairs] : n \in 0..MaxPairs}

\* The module globals as build_graph_from_dataset resets them.
FreshBuild ==
    [nodes |-> <<>>, edges |-> <<>>, node_lookup |-> <<>>, node_counter |-> 1,
     edge_lookup |-> {}]

\* f"N{node_counter}"
NodeId(node_counter) == <<"N", node_counter>>

\* get_node_id(span, attr): the id, and the globals after the call.
get_node_id(b, key) ==
    IF key \in DOMAIN b.node_lookup
    THEN [id |-> b.node_lookup[key], globals |-> b]
    ELSE [id |-> NodeId(b.node_counter),
          globals |->
             [b EXCEPT !.node_counter = @ + 1,
                       !.node_lookup = [k \in DOMAIN @ \cup {key} |->
                                           IF k = key THEN NodeId(b.node_counter)
                                           ELSE @[k]],
                       !.nodes = Append(@, [id |-> NodeId(b.node_counter),
                                            label |-> key.attr, text |-> key.span])]]

\* Mutant: the relation is left out of the key, a second relation between
\* the same two nodes is dropped.
edge_key_NoRel(source_id, target_id, rel) == <<source_id, target_id, "">>

\* edge_key = (source_id, target_id, rel.upper())
edge_key(source_id, target_id, rel) == <<source_id, target_id, Upper(rel)>>

\* The body of the inner loop for one pair.
add_pair(b, pair) ==
    LET edged(b2, source_id, target_id) ==
            IF edge_key(source_id, target_id, pair.rel) \notin b2.edge_lookup
            THEN [b2 EXCEPT !.edges = Append(@, [type |-> Upper(pair.rel),
                                                 source |-> source_id,
                                                 target |-> target_id]),
                            !.edge_lookup = @ \cup {edge_key(source_id, target_id, pair.rel)}]
            ELSE b2
        second(s, t) == edged(t.globals, s.id, t.id)
        first(s) == second(s, get_node_id(s.globals, pair.e))
    IN  first(get_node_id(b, pair.s))

RECURSIVE add_pairs(_, _)
add_pairs(b, data) ==
    IF data = <<>> THEN b ELSE add_pairs(add_pair(b, Head(data)), Tail(data))

\* build_graph_from_dataset(data): (nodes, edges)
build_graph_from_dataset(data) ==
    LET returned(b) == [nodes |-> b.nodes, edges |-> b.edges]
    IN  returned(add_pairs(FreshBuild, data))

BuildGraph ==
    /\ out = Idle
    /\ \E data \in Datasets :
         out' = [op |-> "build_graph_from_dataset", data |-> data,
                 result |-> build_graph_from_dataset(data)]
    /\ UNCHANGED <<nodes_in, edges_in, G, cache, disk, procs, page, files>>

NextBuild == BuildGraph \/ Respond

SpecBuild == InitLoad /\ [][NextBuild]_vars

IsBuild == out.op = "build_graph_from_dataset"

\* The (span, attr) pairs named by the dataset.
NamedSpans == UNION {{out.data[i].s, out.data[i].e} : i \in 1..Len(out.data)}

BuiltIds == [i \in 1..Len(out.result.nodes) |-> out.result.nodes[i].id]

BuiltSpans ==
    [i \in 1..Len(out.result.nodes) |->
        [span |-> out.result.nodes[i].text, attr |-> out.result.nodes[i].label]]

BuiltEdges ==
    [i \in 1..Len(out.result.edges) |->
        <<out.result.edges[i].source, out.result.edges[i].target, out.result.edges[i].type>>]

\* The id given to a (span, attr) pair.
BuiltIdOf(key) ==
    out.result.nodes[CHOOSE i \in 1..Len(BuiltSpans) : BuiltSpans[i] = key].id

\* C27: one node per distinct (span, attr), with distinct ids; every edge
\* runs between emitted nodes; no (source, target, type) twice; and every
\* pair of the dataset has its edge, whatever other relations join the same
\* two nodes.
C27_GraphWellFormed ==
    IsBuild =>
        /\ Range(BuiltSpans) = NamedSpans
        /\ EachOnce(BuiltSpans)
        /\ EachOnce(BuiltIds)
        /\ \A i \in 1..Len(BuiltEdges) :
              BuiltEdges[i][1] \in Range(BuiltIds) /\ BuiltEdges[i][2] \in Range(BuiltIds)
        /\ EachOnce(BuiltEdges)
        /\ \A i \in 1..Len(out.data) :
              <<BuiltIdOf(out.data[i].s), BuiltIdOf(out.data[i].e), Upper(out.data[i].rel)>>
                  \in Range(BuiltEdges)

\* C27 witness: two pairs between the same two entities that differ in
\* relation only, both edges emitted.
C27_Witness ==
    /\ IsBuild
    /\ Len(out.data) = 2
    /\ out.data[1].s = out.data[2].s
    /\ out.data[1].e = out.data[2].e
    /\ out.data[1].s # out.data[1].e
    /\ Upper(out.data[1].rel) # Upper(out.data[2].rel)
    /\ Len(out.result.edges) = 2

\* C27, second case reached: the same triple twice, up to case, one edge.
C27_RepeatDropped ==
    /\ IsBuild
    /\ Len(out.data) = 2
    /\ out.data[1].rel # out.data[2].rel
    /\ Len(out.result.edges) = 1

(***************************************************************************)
(* llm_predictor.py: call_llm_api (specifications SpecLlm and, with the    *)
(* steps of a running call taken eventually, SpecLlmFair).                 *)
(***************************************************************************)
MaxRetries == 4

Prompts == {"p1", "p2", "p3"}

\* What one client.chat.completions.create call may do: answer, raise, or
\* answer without choices (IndexError at choices[0], inside the try).
CreateOutcomes == {"ok", "api_error", "no_choices"}

\* response.choices[0].message.content
Content(prompt) == [content |-> prompt]

\* raise RuntimeError("LLM API call failed after retries.")
RuntimeError == [raised |-> "RuntimeError"]

\* Mutant: the loop makes one attempt more than max_retries.
in_range_OneMore(attempt, max_retries) == attempt <= max_retries

\* for attempt in range(max_retries): the loop has a next attempt.
in_range(attempt, max_retries) == attempt < max_retries

IsCall == out # Idle /\ out.op = "call_llm_api"

\* call_llm_api(prompt, api_key, max_retries=...) is entered.
CallLlmApi ==
    /\ out = Idle
    /\ \E prompt \in Prompts, max_retries \in 0..MaxRetries :
         out' = [op |-> "call_llm_api", prompt |-> prompt, max_retries |-> max_retries,
                 attempt |-> 0, at |-> "for", log |-> <<>>, result |-> NoneDict]
    /\ UNCHANGED <<nodes_in, edges_in, G, cache, disk, procs, page, files>>

\* The for statement: the next attempt, or the loop is exhausted and
\* RuntimeError is raised.
ForAttempt ==
    /\ IsCall
    /\ out.at = "for"
    /\ out' = IF in_range(out.attempt, out.max_retries)
              THEN [out EXCEPT !.at = "create"]
              ELSE [out EXCEPT !.at = "raised", !.result = RuntimeError]
    /\ UNCHANGED <<nodes_in, edges_in, G, cache, disk, procs, page, files>>

\* The try block: the create call answers and its content is returned, or
\* an exception is caught.
Create ==
    /\ IsCall
    /\ out.at = "create"
    /\ \E outcome \in CreateOutcomes :
         out' = IF outcome = "ok"
                THEN [out EXCEPT !.at = "returned", !.log = Append(@, outcome),
                                 !.result = Content(out.prompt)]
                ELSE [out EXCEPT !.at = "sleep", !.log = Append(@, outcome)]
    /\ UNCHANGED <<nodes_in, edges_in, G, cache, disk, procs, page, files>>

\* The except block: the message is printed and time.sleep(sleep_time) ends.
Sleep ==
    /\ IsCall
    /\ out.at = "sleep"
    /\ out' = [out EXCEPT !.at = "for", !.attempt = @ + 1]
    /\ UNCHANGED <<nodes_in, edges_in, G, cache, disk, procs, page, files>>

\* The caller has the content or the exception.
CallEnds ==
    /\ IsCall
    /\ out.at \in {"returned", "raised"}
    /\ out' = Idle
    /\ UNCHANGED <<nodes_in, edges_in, G, cache, disk, procs, page, files>>

NextLlm == CallLlmApi \/ ForAttempt \/ Create \/ Sleep \/ CallEnds

SpecLlm == InitLoad /\ [][NextLlm]_vars

\* A create call answers or raises, a sleep ends, the interpreter goes on.
SpecLlmFair ==
    SpecLlm /\ WF_vars(ForAttempt) /\ WF_vars(Create) /\ WF_vars(Sleep)

\* The attempts of the call so far all failed.
AllFailed(log) == \A i \in 1..Len(log) : log[i] # "ok"

\* The state of a running or finished call is as the claim says.
CallWithinRetries ==
    IsCall =>
        /\ Len(out.log) <= out.max_retries
        /\ AllFailed(SubSeq(out.log, 1, Len(out.log) - 1))
        /\ out.at = "returned" =>
              /\ out.log # <<>>
              /\ out.log[Len(out.log)] = "ok"
              /\ out.result = Content(out.prompt)
        /\ out.at = "raised" =>
              /\ Len(out.log) = out.max_retries
              /\ AllFailed(out.log)
              /\ out.result = RuntimeError
        /\ (Len(out.log) = out.max_retries /\ AllFailed(out.log)) => out.at # "returned"

\* C28: a call makes at most max_retries attempts, none after a successful
\* one, returns the content of the first successful attempt, raises
\* RuntimeError when max_retries attempts have failed, and every call
\* returns or raises.
C28_CallTerminates ==
    /\ []CallWithinRetries
    /\ [](IsCall => <>(IsCall /\ out.at \in {"returned", "raised"}))

\* C28 witness: two attempts failed, the third answered, and its content
\* was returned with attempts to spare.
C28_Witness ==
    /\ IsCall
    /\ out.at = "returned"
    /\ Len(out.log) = 3
    /\ out.max_retries > 3

\* C28, second case reached: three attempts of three failed, RuntimeError.
C28_RaisedAfterRetries ==
    /\ IsCall
    /\ out.at = "raised"
    /\ out.max_retries = 3
    /\ Len(out.log) = 3

(***************************************************************************)
(* The edge list of an expansion (specifications Spec and SpecPage).       *)
(***************************************************************************)
\* C29 as stated: the edge list of an expansion holds no edge twice.
C29_EachEdgeOnce ==
    (out.op = "expand" /\ out.result # Raised) => EachOnce(out.result.edges)

\* C29 for one focus node that has no self-loop: there the code keeps it.
C29_OnceForPlainFocus ==
    (SingleFocus /\ ~EdgeFrom(FocusNode, FocusNode)) => EachOnce(out.result.edges)

\* The edge elements that the page hands to Cytoscape.
EdgeElements ==
    SelectSeq(out.returned.elements, LAMBDA el : el.kind = "edge")

\* C29 on the page (specification SpecPage): no two edge elements with the
\* same source, target and relation, hence with the same element id.
C29_EdgeElementsOnce ==
    (IsLoad /\ out.returned.path = "ok") => EachOnce(EdgeElements)

(***************************************************************************)
(* gwas pages/results.py: fetch_ncbi_data (specification SpecGwasPage).    *)
(***************************************************************************)
\* The matched_genes entries of the store: the name may be None or empty.
MatchedGenes == [gene_id : {"n002", "n003"}, gene_name : Names \cup {None, ""}]

MatchedLists == UNION {[1..n -> MatchedGenes] : n \in 0..MaxBatch}

\* bool(g.get("gene_name"))
Truthy(value) == value \notin {None, "", Missing}

\* [g.get("gene_name") for g in matched_genes if g.get("gene_name")]
query_names(matched_genes) ==
    [i \in 1..Len(SelectSeq(matched_genes, LAMBDA g : Truthy(g.gene_name))) |->
        SelectSeq(matched_genes, LAMBDA g : Truthy(g.gene_name))[i].gene_name]

\* zip(a, b): as long as the shorter of the two.
Shorter(a, b) == IF Len(a) <= Len(b) THEN Len(a) ELSE Len(b)

\* The loop over zip(matched_genes, ncbi_results): ncbi_map[gene_id] is the
\* record with graph_gene_name added; a later pair replaces an earlier one
\* of the same gene_id.
gwas_ncbi_map(genes, ncbi_results) ==
    LET n == Shorter(genes, ncbi_results)
        last(key) == CHOOSE i \in 1..n :
                         /\ genes[i].gene_id = key
                         /\ \A j \in 1..n : genes[j].gene_id = key => j <= i
    IN  [key \in {genes[i].gene_id : i \in 1..n} |->
            [query |-> ncbi_results[last(key)].query,
             not_found |-> ncbi_results[last(key)].not_found,
             error |-> ncbi_results[last(key)].error,
             data |-> ncbi_results[last(key)].data,
             graph_gene_name |-> genes[last(key)].gene_name]]

\* fetch_ncbi_data(data) of the GWAS app, data holding matched_genes.
FetchNcbiDataGwas ==
    /\ out = Idle
    /\ \E matched_genes \in MatchedLists :
         LET mapped(names) ==
               IF names = <<>>
               THEN out' = [op |-> "gwas_fetch_ncbi_data", matched_genes |-> matched_genes,
                            query_names |-> names, ncbi_map |-> <<>>]
               ELSE \E svcs \in [1..Len(names) -> Service] :
                      out' = [op |-> "gwas_fetch_ncbi_data",
                              matched_genes |-> matched_genes, query_names |-> names,
                              ncbi_map |->
                                 gwas_ncbi_map(matched_genes,
                                               fetch_multiple_genes_info(names, svcs).results)]
         IN  mapped(query_names(matched_genes))
    /\ UNCHANGED <<nodes_in, edges_in, G, cache, disk, procs, page, files>>

NextGwasPage == FetchNcbiDataGwas \/ RespondNcbi

SpecGwasPage == InitNcbi /\ [][NextGwasPage]_vars

IsGwasFetch == out.op = "gwas_fetch_ncbi_data"

\* C30 as stated: the record stored under a gene id was fetched for the
\* name of a matched gene of that id.
C30_RecordOfOwnName ==
    IsGwasFetch =>
        \A key \in DOMAIN out.ncbi_map :
            \E i \in 1..Len(out.matched_genes) :
                /\ out.matched_genes[i].gene_id = key
                /\ out.matched_genes[i].gene_name = out.ncbi_map[key].query

\* C30 where every matched gene has a name: there the code keeps it.
C30_AllNamed ==
    (IsGwasFetch /\ \A i \in 1..Len(out.matched_genes) :
                        Truthy(out.matched_genes[i].gene_name)) =>
        \A key \in DOMAIN out.ncbi_map :
            \E i \in 1..Len(out.matched_genes) :
                /\ out.matched_genes[i].gene_id = key
                /\ out.matched_genes[i].gene_name = out.ncbi_map[key].query
====
